---------------------------- MODULE Spec2Model ----------------------------
(***************************************************************************)
(* A model of gsw (git-status-walker), src/gsw/main.go: repository         *)
(* discovery (findGitRepos), the per-repository branch inspector           *)
(* (analyzeRepo, analyzeBranch, parseGitStatus) and the two orchestrators  *)
(* (analyzeReposSequential, analyzeReposParallel), main and the Presenter  *)
(* (displayRepoStatus, displayJSONOutput); and of httppp,                  *)
(* src/httppp/main.go: the configuration main builds from the environment  *)
(* and the command line, the PrettyPrinter and Handler.ServeHTTP; of       *)
(* ai-sync-conventions (FindSyncRoot, CreatePlan, Sync) and of tq          *)
(* (applyFilter, parseFilterParts).                                        *)
(*                                                                         *)
(* git is an external command.  A repository is modelled by what the five  *)
(* git commands the program runs can observe or change: the checked-out    *)
(* branch (head), the local branches, which checkouts succeed, what        *)
(* `git status --porcelain` prints while a branch is checked out, and the  *)
(* commits of each branch and of its upstream.                             *)
(***************************************************************************)
EXTENDS Integers, Sequences, FiniteSets, TLC

VARIABLES
    git,            \* path -> the repository's fixed facts (see RepoFacts)
    head,           \* path -> the branch checked out in that working tree
    checkouts,      \* path -> number of `git checkout` commands run there
    includeClean,   \* the -show-clean flag handed to analyzeRepo
    scan,           \* the frame of the running analyzeRepo call (SpecRepo)
    orch,           \* analyzeReposSequential / analyzeReposParallel (SpecOrch)
    walk,           \* findGitRepos: the filepath.Walk in progress (SpecFind)
    cli,            \* gsw's main and its output (SpecMain, SpecLine)
    http,           \* httppp: its configuration and its proxy (SpecConfig, SpecProxy)
    wt,             \* a `git status --porcelain` output and what gsw makes of it (SpecStatus)
    sync,           \* ai-sync-conventions: the file system and a run on it (SpecSync, SpecRoot)
    tq              \* tq: a document, a filter and its application (SpecFilter)

vars == <<git, head, checkouts, includeClean, scan, orch, walk, cli, http, wt, sync, tq>>

(***************************************************************************)
(* Bounds.                                                                 *)
(***************************************************************************)
MaxBranches == 2

\* Branch names in the order `git branch` lists them (sorted by refname).
BranchPool == <<"dev", "main", "topic", "wip">>

BranchNames == {BranchPool[i] : i \in 1..MaxBranches}

BranchIndex(b) == CHOOSE i \in 1..Len(BranchPool) : BranchPool[i] = b

LF == "\n"
TAB == "\t"

(***************************************************************************)
(* Text helpers: the Go standard-library calls the program makes.          *)
(* Command output is a sequence of tokens (a name, a number's decimal      *)
(* text, or a separator character); status output is a sequence of         *)
(* characters.                                                             *)
(***************************************************************************)
IsSpace(t) == t \in {LF, TAB, " "}

\* strings.TrimSpace
RECURSIVE TrimLeft(_)
TrimLeft(s) ==
    IF s # <<>> /\ IsSpace(Head(s)) THEN TrimLeft(Tail(s)) ELSE s

RECURSIVE TrimRight(_)
TrimRight(s) ==
    IF s # <<>> /\ IsSpace(s[Len(s)]) THEN TrimRight(SubSeq(s, 1, Len(s) - 1)) ELSE s

TrimSpace(s) == TrimRight(TrimLeft(s))

\* string(tokens): the text the tokens spell
RECURSIVE Text(_)
Text(s) == IF s = <<>> THEN "" ELSE Head(s) \o Text(Tail(s))

\* index of the first sep in s, 0 when there is none
FirstIndex(s, sep) ==
    IF \E i \in 1..Len(s) : s[i] = sep
    THEN CHOOSE i \in 1..Len(s) : s[i] = sep /\ \A j \in 1..(i - 1) : s[j] # sep
    ELSE 0

\* strings.Split(s, sep): always at least one field
RECURSIVE Split(_, _)
Split(s, sep) ==
    LET k == FirstIndex(s, sep)
    IN  IF k = 0 THEN <<Text(s)>>
        ELSE <<Text(SubSeq(s, 1, k - 1))>> \o Split(SubSeq(s, k + 1, Len(s)), sep)

\* bufio.Scanner with the default ScanLines split: no final empty line
RECURSIVE ScanLines(_)
ScanLines(out) ==
    LET k == FirstIndex(out, LF)
    IN  IF out = <<>> THEN <<>>
        ELSE IF k = 0 THEN <<out>>
        ELSE <<SubSeq(out, 1, k - 1)>> \o ScanLines(SubSeq(out, k + 1, Len(out)))

\* strings.Join
RECURSIVE Join(_, _)
Join(parts, sep) ==
    IF parts = <<>> THEN ""
    ELSE IF Len(parts) = 1 THEN parts[1]
    ELSE parts[1] \o sep \o Join(Tail(parts), sep)

MaxScanned == 9

\* fmt.Sscanf(text, "%d\t%d", &a, &b): a variable is left at 0 when its
\* verb does not match
ScanInt(t) ==
    IF \E n \in 0..MaxScanned : ToString(n) = t
    THEN CHOOSE n \in 0..MaxScanned : ToString(n) = t
    ELSE 0

Sscanf2(out) ==
    IF Len(out) >= 3 /\ out[2] = TAB
    THEN <<ScanInt(out[1]), ScanInt(out[3])>>
    ELSE IF Len(out) >= 1 THEN <<ScanInt(out[1]), 0>>
    ELSE <<0, 0>>

(***************************************************************************)
(* The repository as git shows it.                                         *)
(*                                                                         *)
(* RepoFacts: branches  the local branches (a non-empty set of names)      *)
(*            coOK      the branches `git checkout -q <b>` succeeds for    *)
(*            porcelain branch -> output of `git status --porcelain` while *)
(*                      that branch is checked out                         *)
(*            upstream  branch -> "none" | "synced" | "diverged"           *)
(*            fail      the git command that fails in this repository:     *)
(*                      "none" | "revparse" | "branch" | "status"          *)
(***************************************************************************)
CleanTree == <<>>
ModifiedTree == <<" ", "M", " ", "f", LF>>
RenamedTree == <<"R", " ", " ", "f", LF>>

Porcelains == {CleanTree, ModifiedTree, RenamedTree}
UpstreamKinds == {"none", "synced", "diverged"}
FailKinds == {"none", "revparse", "branch", "status"}

\* The commits reachable from a branch, and from its upstream: a synced
\* upstream has the branch's commits, a diverged one lacks the branch's
\* last commit and has one commit of its own.
Tip(b) == 1..BranchIndex(b)

UpstreamRef(b, kind) ==
    IF kind = "synced" THEN Tip(b)
    ELSE (Tip(b) \ {BranchIndex(b)}) \cup {10 + BranchIndex(b)}

\* (*exec.ExitError).Error() of a command that exited with a code; git
\* exits with 128 on a fatal error
ExitStatus(code) == "exit status " \o ToString(code)
GitFatal == 128

\* git rev-parse --abbrev-ref HEAD
GitRevParse(r, h) ==
    IF r.fail = "revparse" THEN [ok |-> FALSE, out |-> <<>>, err |-> ExitStatus(GitFatal)]
    ELSE [ok |-> TRUE, out |-> <<h, LF>>, err |-> ""]

\* the branches of a set in listing order
ListingOf(S) ==
    SelectSeq(BranchPool, LAMBDA b : b \in S)

RECURSIVE Lines(_)
Lines(names) ==
    IF names = <<>> THEN <<>> ELSE <<Head(names), LF>> \o Lines(Tail(names))

\* git branch --format=%(refname:short)
GitBranch(r) ==
    IF r.fail = "branch" THEN [ok |-> FALSE, out |-> <<>>, err |-> ExitStatus(GitFatal)]
    ELSE [ok |-> TRUE, out |-> Lines(ListingOf(r.branches)), err |-> ""]

\* git checkout -q <b>: the working tree moves to b when it succeeds
GitCheckout(r, h, b) ==
    IF b \in r.branches /\ b \in r.coOK
    THEN [ok |-> TRUE, head |-> b]
    ELSE [ok |-> FALSE, head |-> h]

\* git status --porcelain
GitStatus(r, h) ==
    IF r.fail = "status" THEN [ok |-> FALSE, out |-> <<>>]
    ELSE [ok |-> TRUE, out |-> r.porcelain[h]]

\* git rev-list --left-right --count <b>...@{u}: @{u} is the upstream of the
\* branch that is checked out
GitRevList(r, h, b) ==
    IF r.upstream[h] = "none" THEN [ok |-> FALSE, out |-> <<>>]
    ELSE LET u == UpstreamRef(h, r.upstream[h])
         IN  [ok |-> TRUE,
              out |-> <<ToString(Cardinality(Tip(b) \ u)), TAB,
                        ToString(Cardinality(u \ Tip(b))), LF>>]

(***************************************************************************)
(* parseGitStatus                                                          *)
(***************************************************************************)
\* the switch of lines 293-303: the category a status line is counted in
Category(line) ==
    IF Len(line) < 2 THEN "none"
    ELSE LET status == SubSeq(line, 1, 2)
         IN  IF status[1] = "M" \/ (status[1] = " " /\ status[2] = "M") THEN "modified"
             ELSE IF status[1] = "A" \/ (status[1] = " " /\ status[2] = "A") THEN "added"
             ELSE IF status[1] = "D" \/ (status[1] = " " /\ status[2] = "D") THEN "deleted"
             ELSE IF status[1] = "?" /\ status[2] = "?" THEN "untracked"
             ELSE "none"

CountOf(lines, cat) ==
    Cardinality({i \in 1..Len(lines) : Category(lines[i]) = cat})

\* Part that reports a category whose count is zero too
PartAlways(n, cat) == <<ToString(n) \o " " \o cat>>

\* lines 307-318: a category is reported when its count is positive
Part(n, cat) == IF n > 0 THEN <<ToString(n) \o " " \o cat>> ELSE <<>>

parseGitStatus(statusOutput) ==
    LET lines == ScanLines(statusOutput)
        parts == Part(CountOf(lines, "modified"), "modified")
                 \o Part(CountOf(lines, "added"), "added")
                 \o Part(CountOf(lines, "deleted"), "deleted")
                 \o Part(CountOf(lines, "untracked"), "untracked")
    IN  IF Len(parts) = 0 THEN "Clean" ELSE Join(parts, ", ")

(***************************************************************************)
(* analyzeBranch                                                           *)
(***************************************************************************)
ErrCheckout == "Error checking out branch"
ErrStatus == "Error getting status"

\* DirtyAndStatus that calls a branch dirty only when a line was counted
DirtyAndStatusFromSummary(output) ==
    [IsDirty |-> parseGitStatus(output) # "Clean", Status |-> parseGitStatus(output)]

\* DirtyAndStatus without its else branch: a clean tree keeps Status ""
DirtyAndStatusNoElse(output) ==
    IF Len(output) > 0
    THEN [IsDirty |-> TRUE, Status |-> parseGitStatus(output)]
    ELSE [IsDirty |-> FALSE, Status |-> ""]

\* lines 258-263: dirtiness and summary from the status output
DirtyAndStatus(output) ==
    IF Len(output) > 0
    THEN [IsDirty |-> TRUE, Status |-> parseGitStatus(output)]
    ELSE [IsDirty |-> FALSE, Status |-> "Clean"]

\* lines 227-231
NewBranchStatus(branch, currentBranch) ==
    [Name |-> branch, IsDirty |-> FALSE, Ahead |-> 0, Behind |-> 0,
     Status |-> "", Current |-> (branch = currentBranch)]

\* lines 265-274
AheadBehind(r, h, branch) ==
    LET rl == GitRevList(r, h, branch)
    IN  IF rl.ok THEN Sscanf2(rl.out) ELSE <<0, 0>>

(***************************************************************************)
(* analyzeRepo, one step per external command it waits for.  A frame holds *)
(* the call's local variables: pc (the command it is about to run),        *)
(* status (the RepoStatus under construction), currentBranch, branches     *)
(* and i (the range loop), bs (the BranchStatus of the analyzeBranch call  *)
(* in progress), on (the branch checked out when that call's status query  *)
(* ran, "" when it did not run), and produced: every BranchStatus          *)
(* analyzeBranch returned, kept or not, with its on.                       *)
(***************************************************************************)
\* lines 179, 193: fmt.Sprintf("...: %v", err)
ErrCurrentBranch(err) == "Error getting current branch: " \o err
ErrBranches(err) == "Error getting branches: " \o err

NoBranch == NewBranchStatus("", "")

NewFrame(repoPath) ==
    [pc |-> "revparse",
     status |-> [Path |-> repoPath, Branches |-> <<>>, CurrentBranch |-> "", Error |-> ""],
     currentBranch |-> "", branches |-> <<>>, i |-> 1, bs |-> NoBranch, on |-> "",
     produced |-> <<>>]

\* RevParseStep with the error of the command ignored
RevParseStepIgnoreErr(f, r, h) ==
    LET cur == Text(TrimSpace(GitRevParse(r, h).out))
    IN  [frame |-> [f EXCEPT !.pc = "branch", !.currentBranch = cur,
                             !.status.CurrentBranch = cur],
         head |-> h, ran |-> 0]

\* lines 174-183
RevParseStep(f, r, h) ==
    LET rp == GitRevParse(r, h)
        cur == Text(TrimSpace(rp.out))
    IN  IF ~rp.ok
        THEN [frame |-> [f EXCEPT !.pc = "done", !.status.Error = ErrCurrentBranch(rp.err)],
              head |-> h, ran |-> 0]
        ELSE [frame |-> [f EXCEPT !.pc = "branch", !.currentBranch = cur,
                                  !.status.CurrentBranch = cur],
              head |-> h, ran |-> 0]

\* BranchStep that goes on to the restoring checkout when the listing fails
BranchStepRestoreOnErr(f, r, h) ==
    LET br == GitBranch(r)
    IN  IF ~br.ok
        THEN [frame |-> [f EXCEPT !.pc = "restore", !.status.Error = ErrBranches(br.err)],
              head |-> h, ran |-> 0]
        ELSE [frame |-> [f EXCEPT !.pc = "loop", !.i = 1,
                                  !.branches = Split(TrimSpace(br.out), LF)],
              head |-> h, ran |-> 0]

\* lines 185-197
BranchStep(f, r, h) ==
    LET br == GitBranch(r)
    IN  IF ~br.ok
        THEN [frame |-> [f EXCEPT !.pc = "done", !.status.Error = ErrBranches(br.err)],
              head |-> h, ran |-> 0]
        ELSE [frame |-> [f EXCEPT !.pc = "loop", !.i = 1,
                                  !.branches = Split(TrimSpace(br.out), LF)],
              head |-> h, ran |-> 0]

\* Keep that ignores the request for clean branches
KeepDirtyOnly(branchStatus, incl) == branchStatus.IsDirty

\* line 207: only include if dirty or if clean branches are shown
Keep(branchStatus, incl) == branchStatus.IsDirty \/ incl

\* lines 204-210: analyzeBranch has returned f.bs; the loop goes to the next
\* branch
EndBranch(f, incl) ==
    [f EXCEPT !.pc = "loop", !.i = f.i + 1,
              !.status.Branches = IF Keep(f.bs, incl) THEN Append(@, f.bs) ELSE @,
              !.produced = Append(@, [bs |-> f.bs, on |-> f.on])]

\* lines 235-244: git checkout -q <branch>
CheckoutStep(f, r, h, incl) ==
    LET co == GitCheckout(r, h, f.bs.Name)
    IN  IF ~co.ok
        THEN [frame |-> EndBranch([f EXCEPT !.bs.Status = ErrCheckout], incl),
              head |-> co.head, ran |-> 1]
        ELSE [frame |-> [f EXCEPT !.pc = "status"], head |-> co.head, ran |-> 1]

\* lines 246-263: git status --porcelain
StatusStep(f, r, h, incl) ==
    LET st == GitStatus(r, h)
        ds == DirtyAndStatus(st.out)
    IN  IF ~st.ok
        THEN [frame |-> EndBranch([f EXCEPT !.bs.Status = ErrStatus, !.on = h], incl),
              head |-> h, ran |-> 0]
        ELSE [frame |-> [f EXCEPT !.pc = "revlist", !.on = h,
                                  !.bs.IsDirty = ds.IsDirty, !.bs.Status = ds.Status],
              head |-> h, ran |-> 0]

\* lines 265-276: git rev-list --left-right --count <branch>...@{u}
RevListStep(f, r, h, incl) ==
    LET ab == AheadBehind(r, h, f.bs.Name)
    IN  [frame |-> EndBranch([f EXCEPT !.bs.Ahead = ab[1], !.bs.Behind = ab[2]], incl),
         head |-> h, ran |-> 0]

\* lines 212-223: return to the original branch; a failure is only warned of
RestoreStep(f, r, h) ==
    [frame |-> [f EXCEPT !.pc = "done"],
     head |-> GitCheckout(r, h, f.currentBranch).head, ran |-> 1]

\* lines 199-204, 213 and 226-234: what runs between two commands of the
\* loop, up to the command the call waits for next
RECURSIVE NextCommand(_)
NextCommand(f) ==
    IF f.pc # "loop" THEN f
    ELSE IF f.i > Len(f.branches)
    THEN [f EXCEPT !.pc = IF f.currentBranch # "" THEN "restore" ELSE "done"]
    ELSE IF f.branches[f.i] = "" THEN NextCommand([f EXCEPT !.i = f.i + 1])
    ELSE [f EXCEPT !.pc = IF f.branches[f.i] # f.currentBranch THEN "checkout" ELSE "status",
                   !.bs = NewBranchStatus(f.branches[f.i], f.currentBranch),
                   !.on = ""]

\* the command at f.pc and the code after it
Command(f, r, h, incl) ==
    CASE f.pc = "revparse" -> RevParseStep(f, r, h)
      [] f.pc = "branch" -> BranchStep(f, r, h)
      [] f.pc = "checkout" -> CheckoutStep(f, r, h, incl)
      [] f.pc = "status" -> StatusStep(f, r, h, incl)
      [] f.pc = "revlist" -> RevListStep(f, r, h, incl)
      [] f.pc = "restore" -> RestoreStep(f, r, h)

Step(f, r, h, incl) ==
    LET s == Command(f, r, h, incl)
    IN  [s EXCEPT !.frame = NextCommand(s.frame)]

\* the whole call: the steps in order until it returns
RECURSIVE RunRepo(_, _, _, _, _)
RunRepo(f, r, h, incl, n) ==
    IF f.pc = "done" THEN [status |-> f.status, head |-> h, ran |-> n]
    ELSE LET s == Step(f, r, h, incl)
         IN  RunRepo(s.frame, r, s.head, incl, n + s.ran)

analyzeRepo(r, h, repoPath, incl) == RunRepo(NewFrame(repoPath), r, h, incl, 0)

(***************************************************************************)
(* Idle values of the parts a specification does not use.                  *)
(***************************************************************************)
IdleScan == [f |-> NewFrame(""), head0 |-> "", finished |-> <<>>]
IdleOrch == [mode |-> "idle", w |-> <<>>]
IdleWalk == [pc |-> "idle"]
IdleCli == [pc |-> "idle"]
IdleHttp == [pc |-> "idle"]
IdleWt == [pc |-> "idle"]
IdleSync == [pc |-> "idle"]
IdleTq == [pc |-> "idle"]

(***************************************************************************)
(* SpecRepo: analyzeRepo called on one repository, and called again when   *)
(* it has returned, with nothing else touching the repository.             *)
(***************************************************************************)
RepoPath == "/repo"

\* the facts of a repository with local branches B; what a failing command
\* hides is fixed
FactsOver(B) ==
    {r \in [branches : {B}, coOK : SUBSET B, porcelain : [B -> Porcelains],
            upstream : [B -> UpstreamKinds], fail : FailKinds] :
        /\ r.fail \in {"revparse", "branch"} =>
              /\ r.coOK = B
              /\ \A b \in B : r.upstream[b] = "none"
        /\ r.fail # "none" => \A b \in B : r.porcelain[b] = CleanTree}

RepoFacts == UNION {FactsOver(B) : B \in (SUBSET BranchNames) \ {{}}}

InitRepo ==
    /\ wt = IdleWt
    /\ sync = IdleSync
    /\ tq = IdleTq
    /\ git \in [{RepoPath} -> RepoFacts]
    /\ head \in [{RepoPath} -> BranchNames]
    /\ head[RepoPath] \in git[RepoPath].branches
    /\ checkouts = [p \in {RepoPath} |-> 0]
    /\ includeClean \in BOOLEAN
    /\ scan = [f |-> NewFrame(RepoPath), head0 |-> head[RepoPath], finished |-> <<>>]
    /\ orch = IdleOrch
    /\ walk = IdleWalk
    /\ cli = IdleCli
    /\ http = IdleHttp

\* what a finished call leaves: its RepoStatus, every BranchStatus it
\* produced, the branch checked out before and after, the checkouts it ran
Finished(f, h0, h, ran) ==
    [status |-> f.status, produced |-> f.produced, before |-> h0, after |-> h, ran |-> ran]

\* a step's effect on the call's frame and on the repository
Advance(s) ==
    LET p == scan.f.status.Path
        ran == checkouts[p] + s.ran
    IN  /\ scan' = [scan EXCEPT
                       !.f = s.frame,
                       !.finished = IF s.frame.pc = "done"
                                    THEN Append(@, Finished(s.frame, scan.head0, s.head, ran))
                                    ELSE @]
        /\ head' = [head EXCEPT ![p] = s.head]
        /\ checkouts' = [checkouts EXCEPT ![p] = ran]
        /\ UNCHANGED <<git, includeClean, orch, walk, cli, http, wt, sync, tq>>

CaptureCurrentBranch ==
    /\ scan.f.pc = "revparse"
    /\ Advance(Step(scan.f, git[RepoPath], head[RepoPath], includeClean))

ListBranches ==
    /\ scan.f.pc = "branch"
    /\ Advance(Step(scan.f, git[RepoPath], head[RepoPath], includeClean))

CheckoutBranch ==
    /\ scan.f.pc = "checkout"
    /\ Advance(Step(scan.f, git[RepoPath], head[RepoPath], includeClean))

QueryStatus ==
    /\ scan.f.pc = "status"
    /\ Advance(Step(scan.f, git[RepoPath], head[RepoPath], includeClean))

QueryAheadBehind ==
    /\ scan.f.pc = "revlist"
    /\ Advance(Step(scan.f, git[RepoPath], head[RepoPath], includeClean))

RestoreBranch ==
    /\ scan.f.pc = "restore"
    /\ Advance(Step(scan.f, git[RepoPath], head[RepoPath], includeClean))

\* the second call of analyzeRepo on the same, untouched repository
Rescan ==
    /\ scan.f.pc = "done"
    /\ Len(scan.finished) < 2
    /\ scan' = [scan EXCEPT !.f = NewFrame(RepoPath), !.head0 = head[RepoPath]]
    /\ checkouts' = [checkouts EXCEPT ![RepoPath] = 0]
    /\ UNCHANGED <<git, head, includeClean, orch, walk, cli, http, wt, sync, tq>>

NextRepo ==
    \/ CaptureCurrentBranch
    \/ ListBranches
    \/ CheckoutBranch
    \/ QueryStatus
    \/ QueryAheadBehind
    \/ RestoreBranch
    \/ Rescan

SpecRepo == InitRepo /\ [][NextRepo]_vars

(***************************************************************************)
(* findGitRepos.  A directory tree is a prefix-closed set of directory     *)
(* paths, each the sequence of names below the scan root (<<>> is the      *)
(* root).  filepath.Walk visits a directory, then, unless the callback     *)
(* answered SkipDir, its children in lexical order.                        *)
(***************************************************************************)
MaxNest == 2

\* directory names in lexical (byte) order
NamePool == <<".git", "a", "node_modules", "vendor">>
DirNames == {NamePool[i] : i \in 1..Len(NamePool)}
RootNames == {"ws", "vendor"}

Sep == "/"

\* filepath.Rel(root, path), as tokens
RECURSIVE Interleave(_)
Interleave(p) ==
    IF Len(p) <= 1 THEN p ELSE <<Head(p), Sep>> \o Interleave(Tail(p))

Rel(p) == IF p = <<>> THEN <<".">> ELSE Interleave(p)

\* lines 95-96
DepthOf(p) == Len(Split(Rel(p), Sep))

\* filepath.Base(path), info.Name()
Base(rootName, p) == IF p = <<>> THEN rootName ELSE p[Len(p)]

\* filepath.Dir(path) of a path below the root
Dir(p) == SubSeq(p, 1, Len(p) - 1)

\* a callback that skips no directory by name
SkipNameNone(basename) == FALSE

\* line 107
SkipName(basename) ==
    basename = "node_modules" \/ basename = "vendor" \/ basename = ".git"

\* The callback of lines 86-128 on a directory (every entry of the tree is
\* one, and lstat succeeds): the answer to Walk, and the repos and visited
\* it leaves.
Callback(w, p) ==
    LET keep == [skip |-> FALSE, repos |-> w.repos, visited |-> w.visited]
        prune == [keep EXCEPT !.skip = TRUE]
        repoPath == Dir(p)
    IN  IF DepthOf(p) > w.maxDepth THEN prune
        ELSE IF SkipName(Base(w.rootName, p)) THEN prune
        ELSE IF Base(w.rootName, p) = ".git"
        THEN IF repoPath \notin w.visited
             THEN [skip |-> TRUE, repos |-> Append(w.repos, repoPath),
                   visited |-> w.visited \cup {repoPath}]
             ELSE prune
        ELSE keep

\* readDirNames: the children of p, sorted
Children(tree, p) ==
    LET kids == SelectSeq(NamePool, LAMBDA n : Append(p, n) \in tree)
    IN  [i \in 1..Len(kids) |-> Append(p, kids[i])]

RECURSIVE Prefixes(_)
Prefixes(p) == IF p = <<>> THEN {<<>>} ELSE {p} \cup Prefixes(Dir(p))

\* the places a repository may be: paths of at most MaxNest names
RECURSIVE PathsUpTo(_)
PathsUpTo(n) ==
    IF n = 0 THEN {<<>>}
    ELSE LET shorter == PathsUpTo(n - 1)
         IN  shorter \cup {Append(q, d) : q \in shorter, d \in DirNames}

\* the tree holding repositories at l1 and l2: their .git directories and
\* every directory above them
TreeOf(l1, l2) == Prefixes(Append(l1, ".git")) \cup Prefixes(Append(l2, ".git"))

Trees == {TreeOf(l1, l2) : l1 \in PathsUpTo(MaxNest), l2 \in PathsUpTo(MaxNest)}

InitFind ==
    /\ wt = IdleWt
    /\ sync = IdleSync
    /\ tq = IdleTq
    /\ walk \in [pc : {"walking"}, tree : Trees, rootName : RootNames,
                 maxDepth : 0..(MaxNest + 2), todo : {<<<<>>>>},
                 repos : {<<>>}, visited : {{}}]
    /\ git = <<>>
    /\ head = <<>>
    /\ checkouts = <<>>
    /\ includeClean = FALSE
    /\ scan = IdleScan
    /\ orch = IdleOrch
    /\ cli = IdleCli
    /\ http = IdleHttp

\* Walk hands the next entry to the callback and descends unless told to skip
WalkVisit ==
    /\ walk.pc = "walking"
    /\ walk.todo # <<>>
    /\ LET p == Head(walk.todo)
           c == Callback(walk, p)
       IN  walk' = [walk EXCEPT
                       !.repos = c.repos,
                       !.visited = c.visited,
                       !.todo = IF c.skip THEN Tail(@)
                                ELSE Children(walk.tree, p) \o Tail(@)]
    /\ UNCHANGED <<git, head, checkouts, includeClean, scan, orch, cli, http, wt, sync, tq>>

\* line 130
FindReturn ==
    /\ walk.pc = "walking"
    /\ walk.todo = <<>>
    /\ walk' = [walk EXCEPT !.pc = "done"]
    /\ UNCHANGED <<git, head, checkouts, includeClean, scan, orch, cli, http, wt, sync, tq>>

NextFind ==
    \/ WalkVisit
    \/ FindReturn

SpecFind == InitFind /\ [][NextFind]_vars

(***************************************************************************)
(* SpecOrch: analyzeReposSequential, then analyzeReposParallel on the same *)
(* repositories in the state the sequential run found them in.             *)
(*                                                                         *)
(* The parallel run has one goroutine per repository (a worker: ready,     *)
(* analyzing, send, deferred, gone), the goroutine that waits for the      *)
(* WaitGroup and closes the channel (closer), and the caller, which spawns *)
(* them and then ranges over the channel.  An analyzeRepo call takes one   *)
(* step per external command, as in SpecRepo, so that the goroutines       *)
(* interleave between the commands of a call.  parCalls counts, per path,  *)
(* the calls the parallel run has made.                                    *)
(***************************************************************************)
MaxRepos == 2

PathPool == <<"/ws/a", "/ws/b", "/ws/c", "/ws/d">>

\* The repositories a run is tried on: all commands succeeding with one
\* dirty branch, a restoring checkout that fails, and the two fatal
\* failures.
Healthy ==
    [branches |-> {"dev", "main"}, coOK |-> {"dev", "main"},
     porcelain |-> [b \in {"dev", "main"} |-> IF b = "dev" THEN ModifiedTree ELSE CleanTree],
     upstream |-> [b \in {"dev", "main"} |-> IF b = "dev" THEN "none" ELSE "diverged"],
     fail |-> "none"]

Stuck == [Healthy EXCEPT !.coOK = {"dev"}]

NoHead == [Healthy EXCEPT !.fail = "revparse"]

NoListing == [Healthy EXCEPT !.fail = "branch"]

OrchFacts == {Healthy, Stuck, NoHead, NoListing}

\* a repository in which an external command of analyzeRepo never returns
\* (cmd.Output and cmd.Run wait for git, without a timeout)
Hung == [Healthy EXCEPT !.fail = "hang"]

Hangs(r) == r.fail = "hang"

NoStatus == NewFrame("").status

\* no analyzeRepo call in progress
NoFrame == NewFrame("")

Unborn == [pc |-> "unborn", path |-> "", status |-> NoStatus, f |-> NoFrame]

\* findGitRepos returns no path twice (lines 116-123): the first n paths
ReposOf(n) == SubSeq(PathPool, 1, n)

PathsOf(repos) == {repos[i] : i \in 1..Len(repos)}

InitOrch ==
    /\ wt = IdleWt
    /\ sync = IdleSync
    /\ tq = IdleTq
    /\ \E n \in 0..MaxRepos :
          /\ git \in [PathsOf(ReposOf(n)) -> OrchFacts]
          /\ head = [p \in PathsOf(ReposOf(n)) |-> "main"]
          /\ checkouts = [p \in PathsOf(ReposOf(n)) |-> 0]
          /\ orch = [mode |-> "sequential", repos |-> ReposOf(n), head0 |-> head,
                     i |-> 1, running |-> FALSE, f |-> NoFrame,
                     seqCalls |-> <<>>, seqStatuses |-> <<>>,
                     pc |-> "spawn", k |-> 1, wg |-> 0, chan |-> <<>>, closed |-> FALSE,
                     closer |-> "unborn", w |-> [j \in 1..n |-> Unborn],
                     parCalls |-> [p \in PathsOf(ReposOf(n)) |-> 0], statuses |-> <<>>]
    /\ includeClean \in BOOLEAN
    /\ scan = IdleScan
    /\ walk = IdleWalk
    /\ cli = IdleCli
    /\ http = IdleHttp

\* the effect of one whole analyzeRepo call on the repository at path
Analyzed(path) == analyzeRepo(git[path], head[path], path, includeClean)

\* the next command of the call in frame f, run on the call's repository
StepOf(f) ==
    LET path == f.status.Path
    IN  Step(f, git[path], head[path], includeClean)

\* what a command leaves in the repository at path
Touch(path, s) ==
    /\ head' = [head EXCEPT ![path] = s.head]
    /\ checkouts' = [checkouts EXCEPT ![path] = @ + s.ran]

\* line 136, the call
SeqCall ==
    /\ orch.mode = "sequential"
    /\ ~orch.running
    /\ orch.i <= Len(orch.repos)
    /\ orch' = [orch EXCEPT !.running = TRUE, !.f = NewFrame(orch.repos[orch.i]),
                            !.seqCalls = Append(@, orch.repos[orch.i])]
    /\ UNCHANGED <<git, head, checkouts, includeClean, scan, walk, cli, http, wt, sync, tq>>

\* SeqCollect that keeps only the records without an error
SeqCollectUnlessError(statuses, status) ==
    IF status.Error # "" THEN statuses ELSE Append(statuses, status)

\* SeqCollect that puts the new record in front
SeqCollectFront(statuses, status) == <<status>> \o statuses

\* line 137
SeqCollect(statuses, status) == Append(statuses, status)

\* line 136: a command of the call returns and the call waits for its next
SeqCommand ==
    /\ orch.mode = "sequential"
    /\ orch.running
    /\ ~Hangs(git[orch.repos[orch.i]])
    /\ LET s == StepOf(orch.f)
       IN  /\ s.frame.pc # "done"
           /\ orch' = [orch EXCEPT !.f = s.frame]
           /\ Touch(orch.repos[orch.i], s)
    /\ UNCHANGED <<git, includeClean, scan, walk, cli, http, wt, sync, tq>>

\* lines 136-137: the call's last command returns, then the call, and the
\* record is appended
SeqReturn ==
    /\ orch.mode = "sequential"
    /\ orch.running
    /\ ~Hangs(git[orch.repos[orch.i]])
    /\ LET s == StepOf(orch.f)
       IN  /\ s.frame.pc = "done"
           /\ orch' = [orch EXCEPT !.running = FALSE, !.i = @ + 1, !.f = NoFrame,
                                   !.seqStatuses = SeqCollect(@, s.frame.status)]
           /\ Touch(orch.repos[orch.i], s)
    /\ UNCHANGED <<git, includeClean, scan, walk, cli, http, wt, sync, tq>>

\* line 139; the parallel run then starts from the same repositories
SeqFinish ==
    /\ orch.mode = "sequential"
    /\ ~orch.running
    /\ orch.i > Len(orch.repos)
    /\ orch' = [orch EXCEPT !.mode = "parallel"]
    /\ head' = orch.head0
    /\ checkouts' = [p \in DOMAIN checkouts |-> 0]
    /\ UNCHANGED <<git, includeClean, scan, walk, cli, http, wt, sync, tq>>

\* Capacity of a channel made one slot short of the number of repositories
CapacityOneLess(repos) == Len(repos) - 1

\* line 144
Capacity(repos) == Len(repos)

\* WorkerPath of a goroutine that reads the loop variable after the loop
\* has run on, instead of taking the path as its argument
WorkerPathCaptured(repos, k) == repos[Len(repos)]

\* lines 148-152: the goroutine's path is the argument bound at the go
\* statement
WorkerPath(repos, k) == repos[k]

\* lines 146-153, one iteration
ParSpawn ==
    /\ orch.mode = "parallel"
    /\ orch.pc = "spawn"
    /\ orch.k <= Len(orch.repos)
    /\ orch' = [orch EXCEPT !.wg = @ + 1, !.k = @ + 1,
                            !.w[orch.k] = [pc |-> "ready",
                                           path |-> WorkerPath(orch.repos, orch.k),
                                           status |-> NoStatus, f |-> NoFrame]]
    /\ UNCHANGED <<git, head, checkouts, includeClean, scan, walk, cli, http, wt, sync, tq>>

\* lines 155-158, the go statement
ParStartCloser ==
    /\ orch.mode = "parallel"
    /\ orch.pc = "spawn"
    /\ orch.k > Len(orch.repos)
    /\ orch' = [orch EXCEPT !.pc = "collect", !.closer = "waiting"]
    /\ UNCHANGED <<git, head, checkouts, includeClean, scan, walk, cli, http, wt, sync, tq>>

\* WorkerBegin of workers that take turns: one starts its call when the
\* ones spawned before it have returned
WorkerBeginInTurn(j) ==
    /\ orch.w[j].pc = "ready"
    /\ \A m \in 1..(j - 1) : orch.w[m].pc = "gone"
    /\ orch' = [orch EXCEPT !.w[j].pc = "analyzing", !.w[j].f = NewFrame(orch.w[j].path),
                            !.parCalls[orch.w[j].path] = @ + 1]
    /\ UNCHANGED <<git, head, checkouts, includeClean, scan, walk, cli, http, wt, sync, tq>>

\* line 150, the call
WorkerBegin(j) ==
    /\ orch.w[j].pc = "ready"
    /\ orch' = [orch EXCEPT !.w[j].pc = "analyzing", !.w[j].f = NewFrame(orch.w[j].path),
                            !.parCalls[orch.w[j].path] = @ + 1]
    /\ UNCHANGED <<git, head, checkouts, includeClean, scan, walk, cli, http, wt, sync, tq>>

\* line 150: a command of the call returns and the call waits for its next
WorkerCommand(j) ==
    /\ orch.w[j].pc = "analyzing"
    /\ ~Hangs(git[orch.w[j].path])
    /\ LET s == StepOf(orch.w[j].f)
       IN  /\ s.frame.pc # "done"
           /\ orch' = [orch EXCEPT !.w[j].f = s.frame]
           /\ Touch(orch.w[j].path, s)
    /\ UNCHANGED <<git, includeClean, scan, walk, cli, http, wt, sync, tq>>

\* line 150: the call's last command returns, then the call
WorkerFinish(j) ==
    /\ orch.w[j].pc = "analyzing"
    /\ ~Hangs(git[orch.w[j].path])
    /\ LET s == StepOf(orch.w[j].f)
       IN  /\ s.frame.pc = "done"
           /\ orch' = [orch EXCEPT !.w[j].pc = "send", !.w[j].f = NoFrame,
                                   !.w[j].status = s.frame.status]
           /\ Touch(orch.w[j].path, s)
    /\ UNCHANGED <<git, includeClean, scan, walk, cli, http, wt, sync, tq>>

\* line 151: blocks while the buffer is full; a send on a closed channel
\* panics
WorkerSend(j) ==
    /\ orch.w[j].pc = "send"
    /\ IF orch.closed
       THEN orch' = [orch EXCEPT !.w[j].pc = "panic"]
       ELSE /\ Len(orch.chan) < Capacity(orch.repos)
            /\ orch' = [orch EXCEPT !.w[j].pc = "deferred",
                                    !.chan = Append(@, orch.w[j].status)]
    /\ UNCHANGED <<git, head, checkouts, includeClean, scan, walk, cli, http, wt, sync, tq>>

\* line 149, the deferred wg.Done()
WorkerDone(j) ==
    /\ orch.w[j].pc = "deferred"
    /\ orch' = [orch EXCEPT !.w[j].pc = "gone", !.wg = @ - 1]
    /\ UNCHANGED <<git, head, checkouts, includeClean, scan, walk, cli, http, wt, sync, tq>>

\* CloserClose without the wg.Wait() before the close
CloserCloseNoWait ==
    /\ orch.closer = "waiting"
    /\ orch' = [orch EXCEPT !.closer = "done", !.closed = TRUE]
    /\ UNCHANGED <<git, head, checkouts, includeClean, scan, walk, cli, http, wt, sync, tq>>

\* lines 156-157
CloserClose ==
    /\ orch.closer = "waiting"
    /\ orch.wg = 0
    /\ orch' = [orch EXCEPT !.closer = "done", !.closed = TRUE]
    /\ UNCHANGED <<git, head, checkouts, includeClean, scan, walk, cli, http, wt, sync, tq>>

\* ParCollect that assigns the received record instead of appending it
ParCollectAssign(statuses, status) == <<status>>

\* line 162
ParCollect(statuses, status) == Append(statuses, status)

\* lines 161-163, one iteration of the range over the channel
ParReceive ==
    /\ orch.mode = "parallel"
    /\ orch.pc = "collect"
    /\ orch.chan # <<>>
    /\ orch' = [orch EXCEPT !.chan = Tail(@), !.statuses = ParCollect(@, Head(orch.chan))]
    /\ UNCHANGED <<git, head, checkouts, includeClean, scan, walk, cli, http, wt, sync, tq>>

\* lines 161 and 165: the range ends when the channel is closed and drained
ParReturn ==
    /\ orch.mode = "parallel"
    /\ orch.pc = "collect"
    /\ orch.chan = <<>>
    /\ orch.closed
    /\ orch' = [orch EXCEPT !.mode = "done", !.pc = "done"]
    /\ UNCHANGED <<git, head, checkouts, includeClean, scan, walk, cli, http, wt, sync, tq>>

NextOrch ==
    \/ SeqCall
    \/ SeqCommand
    \/ SeqReturn
    \/ SeqFinish
    \/ ParSpawn
    \/ ParStartCloser
    \/ \E j \in DOMAIN orch.w : WorkerBegin(j)
    \/ \E j \in DOMAIN orch.w : WorkerCommand(j)
    \/ \E j \in DOMAIN orch.w : WorkerFinish(j)
    \/ \E j \in DOMAIN orch.w : WorkerSend(j)
    \/ \E j \in DOMAIN orch.w : WorkerDone(j)
    \/ CloserClose
    \/ ParReceive
    \/ ParReturn

SpecOrch == InitOrch /\ [][NextOrch]_vars

(***************************************************************************)
(* SpecHang: either run on repositories some of which hang.  The           *)
(* goroutines of the parallel run, and the caller, are scheduled fairly:   *)
(* one that can take a step eventually takes it.                           *)
(***************************************************************************)
InitHang ==
    /\ wt = IdleWt
    /\ sync = IdleSync
    /\ tq = IdleTq
    /\ \E n \in 1..MaxRepos, mode \in {"sequential", "parallel"} :
          /\ git \in [PathsOf(ReposOf(n)) -> {Healthy, Hung}]
          /\ head = [p \in PathsOf(ReposOf(n)) |-> "main"]
          /\ checkouts = [p \in PathsOf(ReposOf(n)) |-> 0]
          /\ orch = [mode |-> mode, repos |-> ReposOf(n), head0 |-> head,
                     i |-> 1, running |-> FALSE, f |-> NoFrame,
                     seqCalls |-> <<>>, seqStatuses |-> <<>>,
                     pc |-> "spawn", k |-> 1, wg |-> 0, chan |-> <<>>, closed |-> FALSE,
                     closer |-> "unborn", w |-> [j \in 1..n |-> Unborn],
                     parCalls |-> [p \in PathsOf(ReposOf(n)) |-> 0], statuses |-> <<>>]
    /\ includeClean \in BOOLEAN
    /\ scan = IdleScan
    /\ walk = IdleWalk
    /\ cli = IdleCli
    /\ http = IdleHttp

\* the steps of worker j other than those of its analyzeRepo call
WorkerSteps(j) ==
    /\ j \in DOMAIN orch.w
    /\ (WorkerBegin(j) \/ WorkerSend(j) \/ WorkerDone(j))

\* the steps of the caller other than those of a sequential call
CallerSteps ==
    SeqCall \/ SeqFinish \/ ParSpawn \/ ParStartCloser \/ ParReceive \/ ParReturn

\* a command of an analyzeRepo call that does not hang returns: the guards
\* of WorkerCommand(j) and WorkerFinish(j), and of SeqCommand and SeqReturn
CanFinish(j) ==
    /\ j \in DOMAIN orch.w
    /\ orch.w[j].pc = "analyzing"
    /\ ~Hangs(git[orch.w[j].path])

CanReturn ==
    /\ orch.mode = "sequential"
    /\ orch.running
    /\ ~Hangs(git[orch.repos[orch.i]])

\* Weak fairness of every goroutine's steps.  For the steps of an
\* analyzeRepo call, WF_vars(A) is written out as []<>~ENABLED A \/ []<>A
\* with the guard of A for ENABLED A.
FairScheduling ==
    /\ WF_vars(CallerSteps)
    /\ WF_vars(CloserClose)
    /\ \A j \in 1..(MaxRepos + 1) : WF_vars(WorkerSteps(j))
    /\ \A j \in 1..(MaxRepos + 1) :
          \/ []<>(~CanFinish(j))
          \/ []<><<j \in DOMAIN orch.w /\ (WorkerCommand(j) \/ WorkerFinish(j))>>_vars
    /\ []<>(~CanReturn) \/ []<><<SeqCommand \/ SeqReturn>>_vars

SpecHang == InitHang /\ [][NextOrch]_vars /\ FairScheduling

(***************************************************************************)
(* The Presenter: displayRepoStatus and displayJSONOutput.  Standard       *)
(* output is the sequence of the lines written to it.  The string literals *)
(* are those of the source file, character for character; a character a   *)
(* string of this module cannot hold is written <U+hhhh>, its code point.  *)
(***************************************************************************)
\* lines 329, 334, 342
Folder == "ð<U+0178><U+201C>"

\* lines 336, 353
AllClean == "   â<U+0153><U+201C> All branches clean"

\* lines 360-364
DirtyIcon == "â<U+0161> ï¸ "
CleanIcon == "â<U+0153><U+201C> "

\* lines 377, 383
UpArrow == "â<U+2020><U+2018>"
DownArrow == "â<U+2020><U+201C>"

MaxCount == 3

\* lines 373-386: the ahead/behind indicators
Indicators(ahead, behind) ==
    IF ahead > 0 \/ behind > 0
    THEN " ["
         \o (IF ahead > 0 THEN UpArrow \o ToString(ahead) ELSE "")
         \o (IF behind > 0
             THEN (IF ahead > 0 THEN " " ELSE "") \o DownArrow \o ToString(behind)
             ELSE "")
         \o "]"
    ELSE ""

\* lines 359-371: the icon and the name, starred when current
LineStart(branch) ==
    "   " \o (IF branch.IsDirty THEN DirtyIcon ELSE CleanIcon)
          \o " " \o (IF branch.Current THEN branch.Name \o " *" ELSE branch.Name)

\* line 388
LineEnd(branch) == " - " \o branch.Status

\* lines 358-389, one iteration
BranchLine(branch) ==
    LineStart(branch) \o Indicators(branch.Ahead, branch.Behind) \o LineEnd(branch)

displayRepoStatus(status, showClean) ==
    LET title == Folder \o " " \o status.Path
        hasDirty == \E j \in 1..Len(status.Branches) : status.Branches[j].IsDirty
    IN  IF status.Error # ""
        THEN <<title \o " - ERROR: " \o status.Error, "">>
        ELSE IF Len(status.Branches) = 0
        THEN IF ~showClean THEN <<title, AllClean, "">> ELSE <<title>>
        ELSE IF ~hasDirty /\ ~showClean
        THEN <<title, AllClean, "">>
        ELSE <<title>>
             \o [j \in 1..Len(status.Branches) |-> BranchLine(status.Branches[j])]
             \o <<"">>

\* %q of a string that has no character to escape
Quote(s) == "\"" \o s \o "\""

\* %v of a bool
Bool(b) == IF b THEN "true" ELSE "false"

RECURSIVE Flatten(_)
Flatten(seqs) == IF seqs = <<>> THEN <<>> ELSE Head(seqs) \o Flatten(Tail(seqs))

\* lines 406-417
JSONBranch(branch, last) ==
    <<"      {",
      "        \"name\": " \o Quote(branch.Name) \o ",",
      "        \"current\": " \o Bool(branch.Current) \o ",",
      "        \"dirty\": " \o Bool(branch.IsDirty) \o ",",
      "        \"ahead\": " \o ToString(branch.Ahead) \o ",",
      "        \"behind\": " \o ToString(branch.Behind) \o ",",
      "        \"status\": " \o Quote(branch.Status),
      IF last THEN "      }" ELSE "      },">>

\* lines 398-424
JSONRepo(status, last) ==
    <<"  {",
      "    \"path\": " \o Quote(status.Path) \o ",",
      "    \"current_branch\": " \o Quote(status.CurrentBranch) \o ",">>
    \o (IF status.Error # ""
        THEN <<"    \"error\": " \o Quote(status.Error) \o ",">>
        ELSE <<>>)
    \o <<"    \"branches\": [">>
    \o Flatten([j \in 1..Len(status.Branches) |->
                   JSONBranch(status.Branches[j], j = Len(status.Branches))])
    \o <<"    ]", IF last THEN "  }" ELSE "  },">>

displayJSONOutput(statuses) ==
    <<"[">>
    \o Flatten([i \in 1..Len(statuses) |-> JSONRepo(statuses[i], i = Len(statuses))])
    \o <<"]">>

\* lines 429-434
pluralize(count, singular, plural) == IF count = 1 THEN singular ELSE plural

(***************************************************************************)
(* SpecLine: displayRepoStatus on the RepoStatus of a repository with one  *)
(* branch, for every ahead and behind count up to MaxCount.                *)
(***************************************************************************)
ShownBranches ==
    {[Name |-> "main", IsDirty |-> DirtyAndStatus(tree).IsDirty,
      Ahead |-> a, Behind |-> b, Status |-> DirtyAndStatus(tree).Status,
      Current |-> c] :
        tree \in {CleanTree, ModifiedTree}, c \in BOOLEAN,
        a \in 0..MaxCount, b \in 0..MaxCount}

InitLine ==
    /\ wt = IdleWt
    /\ sync = IdleSync
    /\ tq = IdleTq
    /\ \E branch \in ShownBranches :
          cli = [pc |-> "line",
                 status |-> [Path |-> RepoPath, Branches |-> <<branch>>,
                             CurrentBranch |-> IF branch.Current THEN "main" ELSE "dev",
                             Error |-> ""],
                 stdout |-> <<>>]
    /\ includeClean \in BOOLEAN
    /\ git = <<>>
    /\ head = <<>>
    /\ checkouts = <<>>
    /\ scan = IdleScan
    /\ orch = IdleOrch
    /\ walk = IdleWalk
    /\ http = IdleHttp

\* line 77, one call
DisplayStatus ==
    /\ cli.pc = "line"
    /\ cli' = [cli EXCEPT !.pc = "done",
                          !.stdout = @ \o displayRepoStatus(cli.status, includeClean)]
    /\ UNCHANGED <<git, head, checkouts, includeClean, scan, orch, walk, http, wt, sync, tq>>

NextLine == DisplayStatus

SpecLine == InitLine /\ [][NextLine]_vars

(***************************************************************************)
(* SpecMain: main from line 48 on, run twice on the same directory tree    *)
(* and with the same flags but for -verbose, which run TRUE has and run    *)
(* FALSE has not.  repos is the list findGitRepos hands back; order is the *)
(* order in which the records arrive from the orchestrator (the input      *)
(* order when sequential, any order when parallel), the same in both runs. *)
(* The diagnostics of analyzeRepo and analyzeBranch are written to         *)
(* os.Stderr (lines 191, 218, 239, 252) and are no part of stdout.         *)
(***************************************************************************)
ScanRoot == "/ws"

Perms(n) == {f \in [1..n -> 1..n] : \A i, j \in 1..n : i # j => f[i] # f[j]}

NewRun == [pc |-> "start", statuses |-> <<>>, stdout |-> <<>>, i |-> 1, left |-> <<>>]

InitMain ==
    /\ wt = IdleWt
    /\ sync = IdleSync
    /\ tq = IdleTq
    /\ \E n \in 0..MaxRepos :
          /\ git \in [PathsOf(ReposOf(n)) -> OrchFacts]
          /\ head \in [PathsOf(ReposOf(n)) -> {"dev", "main"}]
          /\ checkouts = [p \in PathsOf(ReposOf(n)) |-> 0]
          /\ \E json \in BOOLEAN, parallel \in BOOLEAN, order \in Perms(n) :
                /\ ~parallel => order = [k \in 1..n |-> k]
                /\ cli = [pc |-> "main", json |-> json, parallel |-> parallel,
                          repos |-> ReposOf(n), order |-> order,
                          run |-> [v \in BOOLEAN |-> NewRun]]
    /\ includeClean \in BOOLEAN
    /\ scan = IdleScan
    /\ orch = IdleOrch
    /\ walk = IdleWalk
    /\ http = IdleHttp

\* the verbose argument main hands on (lines 48, 55, 67, 69)
Chatty(v) == v /\ ~cli.json

\* lines 48-53
Banner ==
    <<"Scanning directory: " \o ScanRoot,
      "Show clean branches: " \o Bool(includeClean),
      "Parallel processing: " \o Bool(cli.parallel),
      "">>

\* lines 120-122, for every repository findGitRepos appends
FoundLines == [k \in 1..Len(cli.repos) |-> "Found repository: " \o cli.repos[k]]

\* lines 48-55
MainScan(v) ==
    /\ cli.pc = "main"
    /\ cli.run[v].pc = "start"
    /\ cli' = [cli EXCEPT !.run[v].pc = "found",
                          !.run[v].stdout = IF Chatty(v) THEN Banner \o FoundLines ELSE <<>>]
    /\ UNCHANGED <<git, head, checkouts, includeClean, scan, orch, walk, http, wt, sync, tq>>

\* lines 57-62
MainNoRepos(v) ==
    /\ cli.pc = "main"
    /\ cli.run[v].pc = "found"
    /\ Len(cli.repos) = 0
    /\ cli' = [cli EXCEPT !.run[v].pc = "done",
                          !.run[v].stdout = IF ~cli.json
                                            THEN Append(@, "No git repositories found.")
                                            ELSE @]
    /\ UNCHANGED <<git, head, checkouts, includeClean, scan, orch, walk, http, wt, sync, tq>>

\* lines 64-70: the records, in the order they arrive, and the branch each
\* repository is left on
MainAnalyze(v) ==
    /\ cli.pc = "main"
    /\ cli.run[v].pc = "found"
    /\ Len(cli.repos) # 0
    /\ cli' = [cli EXCEPT
                  !.run[v].pc = "analyzed",
                  !.run[v].statuses =
                      [k \in 1..Len(cli.repos) |-> Analyzed(cli.repos[cli.order[k]]).status],
                  !.run[v].left = [p \in PathsOf(cli.repos) |-> Analyzed(p).head]]
    /\ UNCHANGED <<git, head, checkouts, includeClean, scan, orch, walk, http, wt, sync, tq>>

\* lines 72-73
MainJSON(v) ==
    /\ cli.pc = "main"
    /\ cli.run[v].pc = "analyzed"
    /\ cli.json
    /\ cli' = [cli EXCEPT !.run[v].pc = "done",
                          !.run[v].stdout = @ \o displayJSONOutput(cli.run[v].statuses)]
    /\ UNCHANGED <<git, head, checkouts, includeClean, scan, orch, walk, http, wt, sync, tq>>

\* lines 74-75
MainFound(v) ==
    /\ cli.pc = "main"
    /\ cli.run[v].pc = "analyzed"
    /\ ~cli.json
    /\ cli' = [cli EXCEPT
                  !.run[v].pc = "display",
                  !.run[v].i = 1,
                  !.run[v].stdout =
                      @ \o <<"Found " \o ToString(Len(cli.repos)) \o " git repositor"
                                 \o pluralize(Len(cli.repos), "y", "ies") \o ":",
                             "">>]
    /\ UNCHANGED <<git, head, checkouts, includeClean, scan, orch, walk, http, wt, sync, tq>>

\* lines 76-78, one iteration
MainDisplay(v) ==
    /\ cli.pc = "main"
    /\ cli.run[v].pc = "display"
    /\ cli.run[v].i <= Len(cli.run[v].statuses)
    /\ cli' = [cli EXCEPT
                  !.run[v].i = @ + 1,
                  !.run[v].stdout =
                      @ \o displayRepoStatus(cli.run[v].statuses[cli.run[v].i], includeClean)]
    /\ UNCHANGED <<git, head, checkouts, includeClean, scan, orch, walk, http, wt, sync, tq>>

\* line 80
MainExit(v) ==
    /\ cli.pc = "main"
    /\ cli.run[v].pc = "display"
    /\ cli.run[v].i > Len(cli.run[v].statuses)
    /\ cli' = [cli EXCEPT !.run[v].pc = "done"]
    /\ UNCHANGED <<git, head, checkouts, includeClean, scan, orch, walk, http, wt, sync, tq>>

NextMain ==
    \/ \E v \in BOOLEAN : MainScan(v)
    \/ \E v \in BOOLEAN : MainNoRepos(v)
    \/ \E v \in BOOLEAN : MainAnalyze(v)
    \/ \E v \in BOOLEAN : MainJSON(v)
    \/ \E v \in BOOLEAN : MainFound(v)
    \/ \E v \in BOOLEAN : MainDisplay(v)
    \/ \E v \in BOOLEAN : MainExit(v)

SpecMain == InitMain /\ [][NextMain]_vars

(***************************************************************************)
(* httppp, src/httppp/main.go.                                             *)
(*                                                                         *)
(* SpecConfig: main up to the start of the server.  The environment gives  *)
(* each variable of Config unset or set to a text; the command line gives  *)
(* each flag absent or present with a value.                               *)
(***************************************************************************)
Unset == [set |-> FALSE, val |-> ""]
SetTo(text) == [set |-> TRUE, val |-> text]

Absent(zero) == [given |-> FALSE, val |-> zero]
Given(value) == [given |-> TRUE, val |-> value]

\* the envDefault tags of lines 85-91
EnvDefault ==
    [PORT |-> "8080", TARGET_URL |-> "", MAX_BODY_SIZE |-> "0", ONLY_HEADERS |-> "false",
     ONLY_BODY |-> "false", ONLY_JSON |-> "false", SKIP_TLS_VERIFY |-> "false"]

\* the text env.ParseAs converts for a variable: its value, or the default
EnvText(env, name) == IF env[name].set THEN env[name].val ELSE EnvDefault[name]

\* strconv.Atoi on the texts tried
Atoi(text) ==
    IF \E n \in 0..MaxScanned : ToString(n) = text
    THEN [ok |-> TRUE, val |-> CHOOSE n \in 0..MaxScanned : ToString(n) = text]
    ELSE [ok |-> FALSE, val |-> 0]

\* strconv.ParseBool
ParseBool(text) ==
    IF text \in {"1", "t", "T", "TRUE", "true", "True"} THEN [ok |-> TRUE, val |-> TRUE]
    ELSE IF text \in {"0", "f", "F", "FALSE", "false", "False"} THEN [ok |-> TRUE, val |-> FALSE]
    ELSE [ok |-> FALSE, val |-> FALSE]

\* line 26: env.ParseAs[proxy.Config]()
ParseAs(env) ==
    LET size == Atoi(EnvText(env, "MAX_BODY_SIZE"))
        bool(name) == ParseBool(EnvText(env, name))
    IN  [ok |-> /\ size.ok
                /\ \A name \in {"ONLY_HEADERS", "ONLY_BODY", "ONLY_JSON", "SKIP_TLS_VERIFY"} :
                      bool(name).ok,
         cfg |-> [Port |-> EnvText(env, "PORT"),
                  TargetURL |-> EnvText(env, "TARGET_URL"),
                  MaxBodySize |-> size.val,
                  OnlyHeaders |-> bool("ONLY_HEADERS").val,
                  OnlyBody |-> bool("ONLY_BODY").val,
                  OnlyJSON |-> bool("ONLY_JSON").val,
                  SkipTLSVerify |-> bool("SKIP_TLS_VERIFY").val]]

\* flag.Lookup(name).Value.String() of a bool flag
FormatBool(b) == IF b THEN "true" ELSE "false"

\* lines 31-52: CLI flags override environment variables
Overrides(cfg, flags) ==
    [Port |-> IF flags.port.val # "" THEN flags.port.val ELSE cfg.Port,
     TargetURL |-> IF flags.url.val # "" THEN flags.url.val ELSE cfg.TargetURL,
     MaxBodySize |-> IF flags.maxBody.val >= 0 THEN flags.maxBody.val ELSE cfg.MaxBodySize,
     OnlyHeaders |-> IF FormatBool(flags.onlyHeaders.val) = "true"
                     THEN flags.onlyHeaders.val ELSE cfg.OnlyHeaders,
     OnlyBody |-> IF FormatBool(flags.onlyBody.val) = "true"
                  THEN flags.onlyBody.val ELSE cfg.OnlyBody,
     OnlyJSON |-> IF FormatBool(flags.onlyJSON.val) = "true"
                  THEN flags.onlyJSON.val ELSE cfg.OnlyJSON,
     SkipTLSVerify |-> IF FormatBool(flags.skipTLSVerify.val) = "true"
                       THEN flags.skipTLSVerify.val ELSE cfg.SkipTLSVerify]

\* a bool flag: absent, -name, or -name=false
BoolFlags == {Absent(FALSE), Given(TRUE), Given(FALSE)}

BoolEnvs == {Unset, SetTo("true")}

Environments ==
    [PORT : {Unset, SetTo("9000")},
     TARGET_URL : {Unset, SetTo("http://env")},
     MAX_BODY_SIZE : {Unset, SetTo("5"), SetTo("many")},
     ONLY_HEADERS : BoolEnvs, ONLY_BODY : BoolEnvs, ONLY_JSON : BoolEnvs,
     SKIP_TLS_VERIFY : BoolEnvs]

\* the flags after flag.Parse(), lines 16-23: an absent flag has its default
CommandLines ==
    [port : {Absent(""), Given("7000")},
     url : {Absent(""), Given("http://flag")},
     maxBody : {Absent(-1), Given(-1), Given(0), Given(3)},
     onlyHeaders : BoolFlags, onlyBody : BoolFlags, onlyJSON : BoolFlags,
     skipTLSVerify : BoolFlags]

InitConfig ==
    /\ wt = IdleWt
    /\ sync = IdleSync
    /\ tq = IdleTq
    /\ \E env \in Environments, flags \in CommandLines :
          http = [pc |-> "main", env |-> env, flags |-> flags,
                  cfg |-> ParseAs([name \in DOMAIN EnvDefault |-> Unset]).cfg]
    /\ git = <<>>
    /\ head = <<>>
    /\ checkouts = <<>>
    /\ includeClean = FALSE
    /\ scan = IdleScan
    /\ orch = IdleOrch
    /\ walk = IdleWalk
    /\ cli = IdleCli

\* lines 26-29: log.Fatalf
ConfigEnvFatal ==
    /\ http.pc = "main"
    /\ ~ParseAs(http.env).ok
    /\ http' = [http EXCEPT !.pc = "fatal"]
    /\ UNCHANGED <<git, head, checkouts, includeClean, scan, orch, walk, cli, wt, sync, tq>>

\* lines 26-57: log.Fatal when no target URL is configured
ConfigURLFatal ==
    /\ http.pc = "main"
    /\ ParseAs(http.env).ok
    /\ LET cfg == Overrides(ParseAs(http.env).cfg, http.flags)
       IN  /\ cfg.TargetURL = ""
           /\ http' = [http EXCEPT !.pc = "fatal", !.cfg = cfg]
    /\ UNCHANGED <<git, head, checkouts, includeClean, scan, orch, walk, cli, wt, sync, tq>>

\* lines 26-66: the server starts with the effective Config
ConfigServe ==
    /\ http.pc = "main"
    /\ ParseAs(http.env).ok
    /\ LET cfg == Overrides(ParseAs(http.env).cfg, http.flags)
       IN  /\ cfg.TargetURL # ""
           /\ http' = [http EXCEPT !.pc = "serving", !.cfg = cfg]
    /\ UNCHANGED <<git, head, checkouts, includeClean, scan, orch, walk, cli, wt, sync, tq>>

NextConfig ==
    \/ ConfigEnvFatal
    \/ ConfigURLFatal
    \/ ConfigServe

SpecConfig == InitConfig /\ [][NextConfig]_vars

(***************************************************************************)
(* SpecProxy: Handler.ServeHTTP on one request, with the PrettyPrinter     *)
(* writing to output.                                                      *)
(*                                                                         *)
(* A header is the sequence of the entries of a Go map, each a key and its *)
(* values; a key, a value and a body are sequences of pieces of text (a    *)
(* body: of characters).  output is the sequence of the texts written, one *)
(* per Fprintf call.  Reading a body held in memory does not fail, so the  *)
(* error returns of lines 124-126, 166-168, 246, 256, 270 and 294 are not  *)
(* taken.                                                                  *)
(***************************************************************************)
RECURSIVE Repeat(_, _)
\* strings.Repeat
Repeat(s, n) == IF n = 0 THEN "" ELSE s \o Repeat(s, n - 1)

\* strings.Contains(s, piece), strings.HasPrefix(s, piece), for a text cut
\* into pieces at the places piece may start
Contains(s, piece) == \E i \in 1..Len(s) : s[i] = piece
HasPrefix(s, piece) == Len(s) >= 1 /\ s[1] = piece

ContentTypeKey == <<"Content-Type">>
ForwardedForKey == <<"X-Forwarded", "-For">>
TraceKey == <<"X-Trace">>

JSONType == <<"application/json">>
JSONCharsetType == <<"application/json", "; charset=utf-8">>
PlainType == <<"text/plain">>

\* the bodies tried: none, `{"a":1}`, `hi`, and those of the handler's tests:
\* `{"success": true}` and `{"user":"john","age":30,"active":true}`
NoBody == <<>>
JSONBody == <<"{", "\"", "a", "\"", ":", "1", "}">>
PlainBody == <<"h", "i">>
SpacedBody ==
    <<"{", "\"", "s", "u", "c", "c", "e", "s", "s", "\"", ":", " ", "t", "r", "u", "e", "}">>
UserBody ==
    <<"{", "\"", "u", "s", "e", "r", "\"", ":", "\"", "j", "o", "h", "n", "\"", ",",
      "\"", "a", "g", "e", "\"", ":", "3", "0", ",",
      "\"", "a", "c", "t", "i", "v", "e", "\"", ":", "t", "r", "u", "e", "}">>

Bodies == {NoBody, JSONBody, PlainBody, SpacedBody, UserBody}

\* http.Header.Get: the first value of the key, "" when the key is absent
Get(header, key) ==
    IF \E i \in 1..Len(header) : header[i].key = key
    THEN LET i == CHOOSE i \in 1..Len(header) :
                      /\ header[i].key = key
                      /\ \A j \in 1..(i - 1) : header[j].key # key
         IN  header[i].values[1]
    ELSE <<>>

(***************************************************************************)
(* encoding/json's Indent, which formatBody calls: the scanner (a state    *)
(* machine fed one byte at a time, with a stack of the objects and arrays  *)
(* it is inside) and the loop that copies the bytes with the white space   *)
(* changed.  A byte is a one-character text.                               *)
(***************************************************************************)
DecimalDigits == {"0", "1", "2", "3", "4", "5", "6", "7", "8", "9"}

HexDigits ==
    DecimalDigits \cup {"a", "b", "c", "d", "e", "f", "A", "B", "C", "D", "E", "F"}

\* isSpace
IsJSONSpace(c) == c \in {" ", "\t", "\r", "\n"}

\* c < 0x20, for the bytes this module writes
IsControl(c) == c \in {"\t", "\r", "\n", "\f"}

\* newScanner, reset
NewScanner == [step |-> "BeginValue", parseState |-> <<>>, endTop |-> FALSE, err |-> FALSE]

\* s.step = step; return op
ScanGoto(s, step, op) == [s |-> [s EXCEPT !.step = step], op |-> op]

\* return s.error(c, context)
ScanFail(s) == [s |-> [s EXCEPT !.step = "Error", !.err = TRUE], op |-> "scanError"]

\* pushParseState
ScanPush(s, step, newParseState, op) ==
    [s |-> [s EXCEPT !.step = step, !.parseState = Append(@, newParseState)], op |-> op]

\* stateEndTop: the error of a byte that is not a space is returned by the
\* next call
stateEndTop(s, c) ==
    IF ~IsJSONSpace(c)
    THEN [s |-> [s EXCEPT !.step = "Error", !.err = TRUE], op |-> "scanEnd"]
    ELSE [s |-> s, op |-> "scanEnd"]

\* popParseState
popParseState(s) ==
    LET rest == SubSeq(s.parseState, 1, Len(s.parseState) - 1)
    IN  [s EXCEPT !.parseState = rest,
                  !.step = IF rest = <<>> THEN "EndTop" ELSE "EndValue",
                  !.endTop = @ \/ rest = <<>>]

\* stateEndValue
stateEndValue(s, c) ==
    LET n == Len(s.parseState)
    IN  IF n = 0
        THEN stateEndTop([s EXCEPT !.step = "EndTop", !.endTop = TRUE], c)
        ELSE IF IsJSONSpace(c) THEN ScanGoto(s, "EndValue", "scanSkipSpace")
        ELSE CASE s.parseState[n] = "parseObjectKey" ->
                    IF c = ":"
                    THEN ScanGoto([s EXCEPT !.parseState[n] = "parseObjectValue"],
                                  "BeginValue", "scanObjectKey")
                    ELSE ScanFail(s)
               [] s.parseState[n] = "parseObjectValue" ->
                    IF c = ","
                    THEN ScanGoto([s EXCEPT !.parseState[n] = "parseObjectKey"],
                                  "BeginString", "scanObjectValue")
                    ELSE IF c = "}" THEN [s |-> popParseState(s), op |-> "scanEndObject"]
                    ELSE ScanFail(s)
               [] s.parseState[n] = "parseArrayValue" ->
                    IF c = "," THEN ScanGoto(s, "BeginValue", "scanArrayValue")
                    ELSE IF c = "]" THEN [s |-> popParseState(s), op |-> "scanEndArray"]
                    ELSE ScanFail(s)

\* stateBeginValue
stateBeginValue(s, c) ==
    IF IsJSONSpace(c) THEN [s |-> s, op |-> "scanSkipSpace"]
    ELSE CASE c = "{" -> ScanPush(s, "BeginStringOrEmpty", "parseObjectKey", "scanBeginObject")
           [] c = "[" -> ScanPush(s, "BeginValueOrEmpty", "parseArrayValue", "scanBeginArray")
           [] c = "\"" -> ScanGoto(s, "InString", "scanBeginLiteral")
           [] c = "-" -> ScanGoto(s, "Neg", "scanBeginLiteral")
           [] c = "0" -> ScanGoto(s, "0", "scanBeginLiteral")
           [] c = "t" -> ScanGoto(s, "T", "scanBeginLiteral")
           [] c = "f" -> ScanGoto(s, "F", "scanBeginLiteral")
           [] c = "n" -> ScanGoto(s, "N", "scanBeginLiteral")
           [] c \in DecimalDigits \ {"0"} -> ScanGoto(s, "1", "scanBeginLiteral")
           [] OTHER -> ScanFail(s)

\* stateBeginValueOrEmpty
stateBeginValueOrEmpty(s, c) ==
    IF IsJSONSpace(c) THEN [s |-> s, op |-> "scanSkipSpace"]
    ELSE IF c = "]" THEN stateEndValue(s, c)
    ELSE stateBeginValue(s, c)

\* stateBeginString
stateBeginString(s, c) ==
    IF IsJSONSpace(c) THEN [s |-> s, op |-> "scanSkipSpace"]
    ELSE IF c = "\"" THEN ScanGoto(s, "InString", "scanBeginLiteral")
    ELSE ScanFail(s)

\* stateBeginStringOrEmpty
stateBeginStringOrEmpty(s, c) ==
    IF IsJSONSpace(c) THEN [s |-> s, op |-> "scanSkipSpace"]
    ELSE IF c = "}"
    THEN stateEndValue([s EXCEPT !.parseState[Len(s.parseState)] = "parseObjectValue"], c)
    ELSE stateBeginString(s, c)

\* stateInString, stateInStringEsc, stateInStringEscU and the three after it
stateInString(s, c) ==
    IF c = "\"" THEN ScanGoto(s, "EndValue", "scanContinue")
    ELSE IF c = "\\" THEN ScanGoto(s, "InStringEsc", "scanContinue")
    ELSE IF IsControl(c) THEN ScanFail(s)
    ELSE [s |-> s, op |-> "scanContinue"]

stateInStringEsc(s, c) ==
    IF c \in {"b", "f", "n", "r", "t", "\\", "/", "\""}
    THEN ScanGoto(s, "InString", "scanContinue")
    ELSE IF c = "u" THEN ScanGoto(s, "InStringEscU", "scanContinue")
    ELSE ScanFail(s)

stateInStringEscU(s, c, next) ==
    IF c \in HexDigits THEN ScanGoto(s, next, "scanContinue") ELSE ScanFail(s)

\* stateNeg, state1, state0, stateDot, stateDot0, stateE, stateESign, stateE0
stateNeg(s, c) ==
    IF c = "0" THEN ScanGoto(s, "0", "scanContinue")
    ELSE IF c \in DecimalDigits THEN ScanGoto(s, "1", "scanContinue")
    ELSE ScanFail(s)

state0(s, c) ==
    IF c = "." THEN ScanGoto(s, "Dot", "scanContinue")
    ELSE IF c \in {"e", "E"} THEN ScanGoto(s, "E", "scanContinue")
    ELSE stateEndValue(s, c)

state1(s, c) ==
    IF c \in DecimalDigits THEN ScanGoto(s, "1", "scanContinue") ELSE state0(s, c)

stateDot(s, c) ==
    IF c \in DecimalDigits THEN ScanGoto(s, "Dot0", "scanContinue") ELSE ScanFail(s)

stateDot0(s, c) ==
    IF c \in DecimalDigits THEN [s |-> s, op |-> "scanContinue"]
    ELSE IF c \in {"e", "E"} THEN ScanGoto(s, "E", "scanContinue")
    ELSE stateEndValue(s, c)

stateESign(s, c) ==
    IF c \in DecimalDigits THEN ScanGoto(s, "E0", "scanContinue") ELSE ScanFail(s)

stateE(s, c) ==
    IF c \in {"+", "-"} THEN ScanGoto(s, "ESign", "scanContinue") ELSE stateESign(s, c)

stateE0(s, c) ==
    IF c \in DecimalDigits THEN [s |-> s, op |-> "scanContinue"] ELSE stateEndValue(s, c)

\* stateT to stateNul: the byte a literal goes on with, and the state after
stateLiteral(s, c, expected, next) ==
    IF c = expected THEN ScanGoto(s, next, "scanContinue") ELSE ScanFail(s)

\* s.step(s, c)
ScanStep(s, c) ==
    CASE s.step = "BeginValue" -> stateBeginValue(s, c)
      [] s.step = "BeginValueOrEmpty" -> stateBeginValueOrEmpty(s, c)
      [] s.step = "BeginString" -> stateBeginString(s, c)
      [] s.step = "BeginStringOrEmpty" -> stateBeginStringOrEmpty(s, c)
      [] s.step = "EndValue" -> stateEndValue(s, c)
      [] s.step = "EndTop" -> stateEndTop(s, c)
      [] s.step = "InString" -> stateInString(s, c)
      [] s.step = "InStringEsc" -> stateInStringEsc(s, c)
      [] s.step = "InStringEscU" -> stateInStringEscU(s, c, "InStringEscU1")
      [] s.step = "InStringEscU1" -> stateInStringEscU(s, c, "InStringEscU12")
      [] s.step = "InStringEscU12" -> stateInStringEscU(s, c, "InStringEscU123")
      [] s.step = "InStringEscU123" -> stateInStringEscU(s, c, "InString")
      [] s.step = "Neg" -> stateNeg(s, c)
      [] s.step = "0" -> state0(s, c)
      [] s.step = "1" -> state1(s, c)
      [] s.step = "Dot" -> stateDot(s, c)
      [] s.step = "Dot0" -> stateDot0(s, c)
      [] s.step = "E" -> stateE(s, c)
      [] s.step = "ESign" -> stateESign(s, c)
      [] s.step = "E0" -> stateE0(s, c)
      [] s.step = "T" -> stateLiteral(s, c, "r", "Tr")
      [] s.step = "Tr" -> stateLiteral(s, c, "u", "Tru")
      [] s.step = "Tru" -> stateLiteral(s, c, "e", "EndValue")
      [] s.step = "F" -> stateLiteral(s, c, "a", "Fa")
      [] s.step = "Fa" -> stateLiteral(s, c, "l", "Fal")
      [] s.step = "Fal" -> stateLiteral(s, c, "s", "Fals")
      [] s.step = "Fals" -> stateLiteral(s, c, "e", "EndValue")
      [] s.step = "N" -> stateLiteral(s, c, "u", "Nu")
      [] s.step = "Nu" -> stateLiteral(s, c, "l", "Nul")
      [] s.step = "Nul" -> stateLiteral(s, c, "l", "EndValue")
      [] s.step = "Error" -> [s |-> s, op |-> "scanError"]

\* scanner.eof: whether the bytes seen are one complete value
ScanEOF(s) ==
    IF s.err THEN "scanError"
    ELSE IF s.endTop THEN "scanEnd"
    ELSE IF ScanStep(s, " ").s.endTop THEN "scanEnd"
    ELSE "scanError"

\* appendNewline with prefix "" and indent "  "
IndentNewline(depth) == "\n" \o Repeat("  ", depth)

\* appendIndent, lines of the loop that come after the scanner's step: the
\* new line and the deeper indentation owed since an opening brace or
\* bracket, written unless the byte closes it at once
IndentOpen(run, op) ==
    IF run.needIndent /\ op \notin {"scanEndObject", "scanEndArray"}
    THEN [run EXCEPT !.needIndent = FALSE, !.depth = @ + 1,
                     !.dst = @ \o IndentNewline(run.depth + 1)]
    ELSE run

\* appendIndent, the copy of the byte c: as it is inside a literal, and
\* with the white space of its kind otherwise
IndentCopy(run, c, op) ==
    IF op = "scanContinue" THEN [run EXCEPT !.dst = @ \o c]
    ELSE CASE c \in {"{", "["} -> [run EXCEPT !.needIndent = TRUE, !.dst = @ \o c]
           [] c = "," -> [run EXCEPT !.dst = @ \o c \o IndentNewline(run.depth)]
           [] c = ":" -> [run EXCEPT !.dst = @ \o c \o " "]
           [] c \in {"}", "]"} ->
                IF run.needIndent
                THEN [run EXCEPT !.needIndent = FALSE, !.dst = @ \o c]
                ELSE [run EXCEPT !.depth = @ - 1,
                                 !.dst = @ \o IndentNewline(run.depth - 1) \o c]
           [] OTHER -> [run EXCEPT !.dst = @ \o c]

\* appendIndent, the body of the loop after v := scan.step(scan, c), t
\* being the scanner and v: white space is skipped, an error breaks
IndentScanned(run, c, t) ==
    IF t.op = "scanSkipSpace" THEN [run EXCEPT !.scan = t.s]
    ELSE IF t.op = "scanError" THEN [run EXCEPT !.scan = t.s, !.stop = TRUE]
    ELSE IndentCopy(IndentOpen([run EXCEPT !.scan = t.s], t.op), c, t.op)

\* appendIndent, the body of the loop over src for the byte c: run holds
\* the scanner, needIndent, depth, dst, and stop, set by the break
IndentByte(run, c) ==
    IF run.stop THEN run ELSE IndentScanned(run, c, ScanStep(run.scan, c))

\* the loop over src[lo..hi], a half after the other, left at the break
RECURSIVE IndentLoop(_, _, _, _)
IndentRest(left, src, lo, hi) ==
    IF left.stop THEN left ELSE IndentLoop(left, src, lo, hi)

IndentLoop(run, src, lo, hi) ==
    IF lo > hi THEN run
    ELSE IF lo = hi THEN IndentByte(run, src[lo])
    ELSE IndentRest(IndentLoop(run, src, lo, (lo + hi) \div 2), src,
                    (lo + hi) \div 2 + 1, hi)

\* appendIndent after the loop: scan.eof() decides between the text and
\* the error
IndentResult(run) ==
    IF ScanEOF(run.scan) = "scanError"
    THEN [ok |-> FALSE, text |-> ""]
    ELSE [ok |-> TRUE, text |-> run.dst]

\* json.Indent(&prettyJSON, body, "", "  "): the indented text, or an error
\* and nothing written
JSONIndent(body) ==
    IndentResult(IndentLoop([scan |-> NewScanner, needIndent |-> FALSE, depth |-> 0,
                             dst |-> "", stop |-> FALSE],
                            body, 1, Len(body)))

\* lines 204-209: the indented text when json.Indent returns no error, the
\* body as it is otherwise
PrettyOr(indented, plain) == IF indented.ok THEN indented.text ELSE plain

\* lines 194-218
formatBody(cfg, body, contentType) ==
    LET truncated == cfg.MaxBodySize > 0 /\ Len(body) > cfg.MaxBodySize
        cut == IF truncated THEN SubSeq(body, 1, cfg.MaxBodySize) ELSE body
        result == IF Contains(contentType, "application/json")
                  THEN PrettyOr(JSONIndent(cut), Text(cut))
                  ELSE Text(cut)
    IN  result \o (IF truncated
                   THEN "\n... [truncated, showing first " \o ToString(cfg.MaxBodySize)
                            \o " bytes]"
                   ELSE "")

\* lines 110, 145, 153, 187
HeadersShown(cfg) == ~cfg.OnlyBody /\ ~cfg.OnlyJSON

\* BodyShown that does not look at OnlyHeaders
BodyShownIfAny(cfg, body) == Len(body) > 0

\* lines 129, 171
BodyShown(cfg, body) == Len(body) > 0 /\ ~cfg.OnlyHeaders

\* lines 133, 175: skip if OnlyJSON is set and content is not JSON
SkippedAsNotJSON(cfg, contentType) ==
    cfg.OnlyJSON /\ ~Contains(contentType, "application/json")

\* lines 115-119, 157-161: the range over the map, in the order it takes
HeaderLines(header, order) ==
    Flatten([k \in 1..Len(header) |->
                LET entry == header[order[k]]
                IN  [j \in 1..Len(entry.values) |->
                        Text(entry.key) \o ": " \o Text(entry.values[j]) \o "\n"]])

\* lines 137-141, 179-183
BodyText(cfg, body, contentType) ==
    IF cfg.OnlyBody \/ cfg.OnlyJSON
    THEN formatBody(cfg, body, contentType) \o "\n"
    ELSE "\n" \o formatBody(cfg, body, contentType) \o "\n"

\* what lines 122-148 and 164-190 write after the headers
BodyAndRule(cfg, body, contentType, rule) ==
    IF BodyShown(cfg, body) /\ SkippedAsNotJSON(cfg, contentType)
    THEN <<>>
    ELSE (IF BodyShown(cfg, body) THEN <<BodyText(cfg, body, contentType)>> ELSE <<>>)
         \o (IF HeadersShown(cfg) THEN <<rule>> ELSE <<>>)

RequestMarker == "\n" \o Repeat("=", 40) \o " REQUEST " \o Repeat("=", 40) \o "\n"
ResponseMarker == "\n" \o Repeat("=", 39) \o " RESPONSE " \o Repeat("=", 39) \o "\n"
RequestRule == Repeat("=", 88) \o "\n"
ResponseRule == Repeat("=", 88) \o "\n\n"

RequestLine(req) == req.Method \o " " \o req.URL \o " " \o req.Proto \o "\n"
HostLine(req) == "Host: " \o req.Host \o "\n"
StatusLine(resp) == resp.Proto \o " " \o resp.Status \o "\n"

\* lines 109-149
PrintRequest(cfg, req, order) ==
    (IF HeadersShown(cfg)
     THEN <<RequestMarker, RequestLine(req), HostLine(req)>> \o HeaderLines(req.Header, order)
     ELSE <<>>)
    \o BodyAndRule(cfg, req.Body, Get(req.Header, ContentTypeKey), RequestRule)

\* lines 152-191
PrintResponse(cfg, resp, order) ==
    (IF HeadersShown(cfg)
     THEN <<ResponseMarker, StatusLine(resp)>> \o HeaderLines(resp.Header, order)
     ELSE <<>>)
    \o BodyAndRule(cfg, resp.Body, Get(resp.Header, ContentTypeKey), ResponseRule)

\* lines 274-282: copy headers, excluding Host and X-Forwarded*
CopyHeaders(header) ==
    SelectSeq(header, LAMBDA entry :
        ~(entry.key = <<"Host">> \/ HasPrefix(entry.key, "X-Forwarded")))

\* lines 261-282: the proxied request
ProxyRequest(cfg, req) ==
    [Method |-> req.Method, URL |-> cfg.TargetURL \o req.URL,
     Header |-> CopyHeaders(req.Header), Body |-> req.Body]

Entry(key, value) == [key |-> key, values |-> <<value>>]

\* the header maps tried: a content type or none, and one more entry or none
HeadersWith(extra) ==
    {types \o more :
        types \in {<<>>} \cup {<<Entry(ContentTypeKey, t)>> :
                                  t \in {JSONType, JSONCharsetType, PlainType}},
        more \in {<<>>, <<extra>>}}

Requests ==
    [Method : {"POST"}, URL : {"/users"}, Proto : {"HTTP/1.1"}, Host : {"localhost:8080"},
     Header : HeadersWith(Entry(ForwardedForKey, <<"10.0.0.1">>)),
     Body : Bodies]

\* the target's answer to the proxied request, or no answer
Targets ==
    [answers : {FALSE}, Proto : {"HTTP/1.1"}, StatusCode : {0}, Status : {""},
     Header : {<<>>}, Body : {NoBody}]
    \cup
    [answers : {TRUE}, Proto : {"HTTP/1.1"}, StatusCode : {404}, Status : {"404 Not Found"},
     Header : HeadersWith(Entry(TraceKey, <<"t1">>)),
     Body : Bodies]

Configs ==
    [TargetURL : {"http://target"}, MaxBodySize : {0, 3},
     OnlyHeaders : BOOLEAN, OnlyBody : BOOLEAN, OnlyJSON : BOOLEAN]

NoResponse == [StatusCode |-> 0, Header |-> <<>>, Body |-> <<>>]
NoRequest == [Method |-> "", URL |-> "", Header |-> <<>>, Body |-> <<>>]

InitProxy ==
    /\ wt = IdleWt
    /\ sync = IdleSync
    /\ tq = IdleTq
    /\ \E cfg \in Configs, req \in Requests, target \in Targets :
          http = [pc |-> "printRequest", cfg |-> cfg, req |-> req, target |-> target,
                  output |-> <<>>, mark |-> 0, sent |-> NoRequest, written |-> NoResponse]
    /\ git = <<>>
    /\ head = <<>>
    /\ checkouts = <<>>
    /\ includeClean = FALSE
    /\ scan = IdleScan
    /\ orch = IdleOrch
    /\ walk = IdleWalk
    /\ cli = IdleCli

\* line 245; mark is where the printed request ends in output
ServePrintRequest ==
    /\ http.pc = "printRequest"
    /\ \E order \in Perms(Len(http.req.Header)) :
          LET printed == PrintRequest(http.cfg, http.req, order)
          IN  http' = [http EXCEPT !.pc = "forward", !.output = @ \o printed,
                                   !.mark = Len(http.output) + Len(printed)]
    /\ UNCHANGED <<git, head, checkouts, includeClean, scan, orch, walk, cli, wt, sync, tq>>

\* lines 250-285: the proxied request reaches the target, which answers
ServeForward ==
    /\ http.pc = "forward"
    /\ http.target.answers
    /\ http' = [http EXCEPT !.pc = "printResponse",
                            !.sent = ProxyRequest(http.cfg, http.req)]
    /\ UNCHANGED <<git, head, checkouts, includeClean, scan, orch, walk, cli, wt, sync, tq>>

\* lines 285-289: http.Error with StatusBadGateway
ServeBadGateway ==
    /\ http.pc = "forward"
    /\ ~http.target.answers
    /\ http' = [http EXCEPT
                   !.pc = "done",
                   !.written = [StatusCode |-> 502,
                                Header |-> <<Entry(ContentTypeKey,
                                                   <<"text/plain", "; charset=utf-8">>),
                                             Entry(<<"X-Content-Type-Options">>,
                                                   <<"nosniff">>)>>,
                                Body |-> <<"Error executing proxy request">>]]
    /\ UNCHANGED <<git, head, checkouts, includeClean, scan, orch, walk, cli, wt, sync, tq>>

\* line 293
ServePrintResponse ==
    /\ http.pc = "printResponse"
    /\ \E order \in Perms(Len(http.target.Header)) :
          http' = [http EXCEPT !.pc = "copy",
                               !.output = @ \o PrintResponse(http.cfg, http.target, order)]
    /\ UNCHANGED <<git, head, checkouts, includeClean, scan, orch, walk, cli, wt, sync, tq>>

\* lines 298-311: headers, status code and body to the client
ServeCopy ==
    /\ http.pc = "copy"
    /\ http' = [http EXCEPT
                   !.pc = "done",
                   !.written = [StatusCode |-> http.target.StatusCode,
                                Header |-> http.target.Header,
                                Body |-> http.target.Body]]
    /\ UNCHANGED <<git, head, checkouts, includeClean, scan, orch, walk, cli, wt, sync, tq>>

NextProxy ==
    \/ ServePrintRequest
    \/ ServeForward
    \/ ServeBadGateway
    \/ ServePrintResponse
    \/ ServeCopy

SpecProxy == InitProxy /\ [][NextProxy]_vars

(***************************************************************************)
(* SpecStatus: one output of `git status --porcelain`, summarised by       *)
(* parseGitStatus and then turned into IsDirty and Status as analyzeBranch *)
(* does.  A line of git's output is the two status letters XY, a space and *)
(* a path; parseGitStatus, which takes any string, is also run on outputs  *)
(* with shorter lines.                                                     *)
(***************************************************************************)
MaxLines == 2

\* the XY codes of git's short format that the lines are drawn from
StatusCodes ==
    {<<" ", "M">>, <<"M", " ">>, <<"M", "M">>, <<"M", "D">>,
     <<"A", " ">>, <<" ", "A">>, <<"A", "M">>, <<"A", "D">>,
     <<"D", " ">>, <<" ", "D">>,
     <<"R", " ">>, <<"R", "M">>, <<"C", " ">>, <<"U", "U">>,
     <<"?", "?">>, <<"!", "!">>}

PorcelainLines == {xy \o <<" ", "f">> : xy \in StatusCodes}

ShortLines == {<<>>, <<"M">>, <<"?">>}

StatusLines == PorcelainLines \cup ShortLines

\* the output that has the given lines, each ended by a line feed
RECURSIVE OutputOf(_)
OutputOf(lines) ==
    IF lines = <<>> THEN <<>> ELSE Head(lines) \o <<LF>> \o OutputOf(Tail(lines))

NoBranchStatus == [IsDirty |-> FALSE, Status |-> ""]

InitStatus ==
    /\ git = <<>>
    /\ head = <<>>
    /\ checkouts = <<>>
    /\ includeClean = FALSE
    /\ scan = IdleScan
    /\ orch = IdleOrch
    /\ walk = IdleWalk
    /\ cli = IdleCli
    /\ http = IdleHttp
    /\ sync = IdleSync
    /\ tq = IdleTq
    /\ \E n \in 0..MaxLines : \E lines \in [1..n -> StatusLines] :
          wt = [pc |-> "output", lines |-> lines, output |-> OutputOf(lines),
                summary |-> "", branch |-> NoBranchStatus]

\* parseGitStatus(output)
ParseStatus ==
    /\ wt.pc = "output"
    /\ wt' = [wt EXCEPT !.pc = "parsed", !.summary = parseGitStatus(wt.output)]
    /\ UNCHANGED <<git, head, checkouts, includeClean, scan, orch, walk, cli, http, sync, tq>>

\* analyzeBranch, lines 258-263, on an output git can print
MarkDirty ==
    /\ wt.pc = "parsed"
    /\ \A i \in 1..Len(wt.lines) : wt.lines[i] \in PorcelainLines
    /\ wt' = [wt EXCEPT !.pc = "done", !.branch = DirtyAndStatus(wt.output)]
    /\ UNCHANGED <<git, head, checkouts, includeClean, scan, orch, walk, cli, http, sync, tq>>

NextStatus ==
    \/ ParseStatus
    \/ MarkDirty

SpecStatus == InitStatus /\ [][NextStatus]_vars

(***************************************************************************)
(* ai-sync-conventions (package sync): the rules files of a project.       *)
(*                                                                         *)
(* The file system under the root is a function from the full path of      *)
(* each listed file to its state: whether it exists, its content, its      *)
(* modification time and whether it is read-only; and the set of the       *)
(* directories that exist.  A path is the sequence of its names and        *)
(* separators.  At most MaxFiles of the listed files exist at the start.   *)
(***************************************************************************)
MaxFiles == 3
MaxTime == 2

\* NewSyncManager, lines 15-21
DefaultFiles ==
    <<<<"CONVENTIONS.md">>, <<".clinerules">>, <<".cursorrules">>,
      <<".github", Sep, "copilot-instructions.md">>, <<".windsurfrules">>>>

\* sm.Files
Files == DefaultFiles

\* /proj
SyncRootPath == <<Sep, "proj">>

\* filepath.Join(rootPath, file) of a clean root and a clean relative name
JoinPath(rootPath, file) == rootPath \o <<Sep>> \o file

\* filepath.Dir of a clean absolute path: what is before its last separator
FileDir(path) ==
    LET last == CHOOSE k \in 1..Len(path) :
                    path[k] = Sep /\ \A m \in (k + 1)..Len(path) : path[m] # Sep
    IN  IF last = 1 THEN <<Sep>> ELSE SubSeq(path, 1, last - 1)

Contents == {"", "a", "b"}

\* crypto/md5 of the contents used, in the %x form of line 74
MD5 ==
    [c \in Contents |->
        CASE c = "" -> "d41d8cd98f00b204e9800998ecf8427e"
          [] c = "a" -> "0cc175b9c0f1b6a831c399e269772661"
          [] c = "b" -> "92eb5ffee6ae2fec3ad71c777531578f"]

Missing == [exists |-> FALSE, content |-> "", mtime |-> 0, readonly |-> FALSE]

FileStates ==
    {Missing} \cup [exists : {TRUE}, content : Contents, mtime : 1..MaxTime,
                    readonly : BOOLEAN]

\* os.ReadFile: the bytes, or no bytes and an error
ReadFile(fs, path) ==
    IF fs[path].exists THEN [ok |-> TRUE, bytes |-> fs[path].content]
    ELSE [ok |-> FALSE, bytes |-> ""]

\* lines 64-75: the error of os.ReadFile is dropped, so a file that cannot
\* be read hashes as no bytes; hash.Write returns no error
calculateMD5(fs, path) == [ok |-> TRUE, hash |-> MD5[ReadFile(fs, path).bytes]]

NoInfo == [ok |-> FALSE, Path |-> <<>>, ModTime |-> 0, Hash |-> ""]

\* lines 87-107
GetFileInfo(fs, path) ==
    IF ~fs[path].exists THEN NoInfo
    ELSE [ok |-> TRUE, Path |-> path, ModTime |-> fs[path].mtime,
          Hash |-> calculateMD5(fs, path).hash]

\* lines 116-133: the first loop, from file i on; latest is NoInfo for nil
RECURSIVE FindLatest(_, _, _, _, _)
FindLatest(fs, files, rootPath, i, latest) ==
    IF i > Len(files) THEN latest
    ELSE LET info == GetFileInfo(fs, JoinPath(rootPath, files[i]))
         IN  IF ~info.ok THEN FindLatest(fs, files, rootPath, i + 1, latest)
             ELSE IF ~latest.ok \/ info.ModTime > latest.ModTime
             THEN FindLatest(fs, files, rootPath, i + 1, info)
             ELSE FindLatest(fs, files, rootPath, i + 1, latest)

\* lines 141-166, the body of the second loop: os.Stat follows symbolic
\* links, so the Mode of line 149 never has ModeSymlink
IsTarget(fs, fullPath, latest) ==
    /\ fullPath # latest.Path
    /\ calculateMD5(fs, fullPath).hash # latest.Hash

ErrNoValidFiles == "no valid files found to sync"

NoPlan == [SourcePath |-> <<>>, TargetPaths |-> <<>>]

\* lines 110-172
CreatePlan(fs, files, rootPath) ==
    LET latest == FindLatest(fs, files, rootPath, 1, NoInfo)
        paths == [i \in 1..Len(files) |-> JoinPath(rootPath, files[i])]
    IN  IF ~latest.ok THEN [err |-> ErrNoValidFiles, plan |-> NoPlan]
        ELSE [err |-> "",
              plan |-> [SourcePath |-> latest.Path,
                        TargetPaths |-> SelectSeq(paths, LAMBDA p : IsTarget(fs, p, latest))]]

ErrWrite == "failed to write file"

\* os.MkdirAll(dir, 0755) in a tree whose directories are writable: dir
\* exists afterwards
MkdirAll(dirs, dir) == dirs \cup {dir}

\* os.WriteFile(targetPath, content, 0644) at time now: an existing
\* read-only file cannot be opened for writing, nor a file in a directory
\* that does not exist
WriteFile(fs, dirs, path, content, now) ==
    IF (fs[path].exists /\ fs[path].readonly) \/ FileDir(path) \notin dirs
    THEN [ok |-> FALSE, fs |-> fs]
    ELSE [ok |-> TRUE,
          fs |-> [fs EXCEPT ![path] = [exists |-> TRUE, content |-> content,
                                       mtime |-> now, readonly |-> @.readonly]]]

(***************************************************************************)
(* SpecSync: SyncManager.Sync(root) on a root with any listed files.       *)
(***************************************************************************)
SyncPaths == {JoinPath(SyncRootPath, Files[i]) : i \in 1..Len(Files)}

\* the listed files in E exist, in any state, and no other
FileSystemsWith(E) ==
    {[p \in SyncPaths |-> IF p \in E THEN g[p] ELSE Missing] :
        g \in [E -> FileStates \ {Missing}]}

\* at most max listed files exist and at most one is read-only
FileSystems(max) ==
    {fs \in UNION {FileSystemsWith(E) :
                      E \in {S \in SUBSET SyncPaths : Cardinality(S) <= max}} :
        Cardinality({p \in SyncPaths : fs[p].readonly}) <= 1}

\* the directories of the listed files
SyncDirs == {FileDir(p) : p \in SyncPaths}

\* the root exists, and the directory of every file that does
DirectoriesOf(fs) ==
    {dirs \in SUBSET SyncDirs :
        /\ SyncRootPath \in dirs
        /\ \A p \in SyncPaths : fs[p].exists => FileDir(p) \in dirs}

InitSync ==
    /\ git = <<>>
    /\ head = <<>>
    /\ checkouts = <<>>
    /\ includeClean = FALSE
    /\ scan = IdleScan
    /\ orch = IdleOrch
    /\ walk = IdleWalk
    /\ cli = IdleCli
    /\ http = IdleHttp
    /\ wt = IdleWt
    /\ tq = IdleTq
    /\ \E fs \in FileSystems(MaxFiles) : \E dirs \in DirectoriesOf(fs) :
          sync = [pc |-> "Sync", fs0 |-> fs, fs |-> fs, dirs |-> dirs, plan |-> NoPlan,
                  content |-> "", k |-> 1, err |-> ""]

SyncOthers == UNCHANGED <<git, head, checkouts, includeClean, scan, orch, walk, cli, http, wt, tq>>

\* lines 204-207
SyncCreatePlan ==
    /\ sync.pc = "Sync"
    /\ LET c == CreatePlan(sync.fs, Files, SyncRootPath)
       IN  sync' = [sync EXCEPT !.pc = IF c.err # "" THEN "returned" ELSE "plan.Sync",
                                !.plan = c.plan, !.err = c.err]
    /\ SyncOthers

\* lines 176-179
SyncNothingToDo ==
    /\ sync.pc = "plan.Sync"
    /\ Len(sync.plan.TargetPaths) = 0
    /\ sync' = [sync EXCEPT !.pc = "returned"]
    /\ SyncOthers

\* lines 181-185: the source was there a moment ago and is read
SyncReadSource ==
    /\ sync.pc = "plan.Sync"
    /\ Len(sync.plan.TargetPaths) > 0
    /\ sync' = [sync EXCEPT !.pc = "write",
                            !.content = ReadFile(sync.fs, sync.plan.SourcePath).bytes]
    /\ SyncOthers

\* lines 188-197, one iteration; the clock is past every time in use
SyncWrite ==
    /\ sync.pc = "write"
    /\ sync.k <= Len(sync.plan.TargetPaths)
    /\ LET targetPath == sync.plan.TargetPaths[sync.k]
           made == MkdirAll(sync.dirs, FileDir(targetPath))
           w == WriteFile(sync.fs, made, targetPath, sync.content, MaxTime + 1)
       IN  sync' = [sync EXCEPT !.fs = w.fs, !.dirs = made,
                                !.k = IF w.ok THEN @ + 1 ELSE @,
                                !.pc = IF w.ok THEN "write" ELSE "returned",
                                !.err = IF w.ok THEN "" ELSE ErrWrite]
    /\ SyncOthers

\* line 199
SyncReturn ==
    /\ sync.pc = "write"
    /\ sync.k > Len(sync.plan.TargetPaths)
    /\ sync' = [sync EXCEPT !.pc = "returned"]
    /\ SyncOthers

NextSync ==
    \/ SyncCreatePlan
    \/ SyncNothingToDo
    \/ SyncReadSource
    \/ SyncWrite
    \/ SyncReturn

SpecSync == InitSync /\ [][NextSync]_vars

(***************************************************************************)
(* SpecRoot: FindSyncRoot(startPath).  The directories are those of one    *)
(* chain below the filesystem root, / /p /p/s ...; the process runs in one *)
(* of them.  A path is clean: absolute or relative, and a sequence of      *)
(* names ("/" and "." have none; ".." is a name).                          *)
(***************************************************************************)
MaxUp == 2

DirPool == <<"p", "s", "t", "u">>

Chain(n) == SubSeq(DirPool, 1, n)

AbsPath(names) == [abs |-> TRUE, names |-> names]
RelPath(names) == [abs |-> FALSE, names |-> names]

\* filepath.Dir of a clean path: "/" and "." are their own parents
PathDir(p) ==
    IF p.names = <<>> THEN p ELSE [p EXCEPT !.names = SubSeq(@, 1, Len(@) - 1)]

\* the directory a path names for a process whose working directory is cwd
RECURSIVE Walked(_, _)
Walked(at, names) ==
    IF names = <<>> THEN at
    ELSE IF Head(names) = ".."
    THEN Walked(SubSeq(at, 1, Len(at) - 1), Tail(names))
    ELSE Walked(Append(at, Head(names)), Tail(names))

Resolve(cwd, p) == IF p.abs THEN Walked(<<>>, p.names) ELSE Walked(cwd, p.names)

IsDir(names) == Len(names) <= MaxUp /\ names = Chain(Len(names))

\* the names a directory of the chain can hold
EntryNames == {"CONVENTIONS.md", ".windsurfrules", "README.md"}

\* os.Stat(filepath.Join(current, file)) succeeds
StatOK(cwd, holds, current, file) ==
    LET dir == Resolve(cwd, current)
    IN  IsDir(dir) /\ file \in holds[Len(dir)]

\* lines 50-54: any of the sync files of NewSyncManager is in current
HasSyncFile(cwd, holds, current) ==
    \E i \in 1..Len(DefaultFiles) : StatOK(cwd, holds, current, Text(DefaultFiles[i]))

ErrNoSyncFiles == "no sync files found in path hierarchy"

\* the start paths tried: none (""), every directory of the chain and one
\* below it, and the relative paths . and .. and a child of the working
\* directory
StartPaths(cwd) ==
    {[given |-> FALSE, path |-> RelPath(<<>>)]}
        \cup {[given |-> TRUE, path |-> AbsPath(Chain(n))] : n \in 0..(MaxUp + 1)}
        \cup {[given |-> TRUE, path |-> RelPath(names)] :
                 names \in {<<>>, <<"..">>, <<DirPool[Len(cwd) + 1]>>}}

InitRoot ==
    /\ git = <<>>
    /\ head = <<>>
    /\ checkouts = <<>>
    /\ includeClean = FALSE
    /\ scan = IdleScan
    /\ orch = IdleOrch
    /\ walk = IdleWalk
    /\ cli = IdleCli
    /\ http = IdleHttp
    /\ wt = IdleWt
    /\ tq = IdleTq
    /\ \E depth \in 0..MaxUp, holds \in [0..MaxUp -> SUBSET EntryNames] :
          \E start \in StartPaths(Chain(depth)) :
              sync = [pc |-> "FindSyncRoot", cwd |-> Chain(depth), holds |-> holds,
                      start |-> start, current |-> RelPath(<<>>), iterations |-> 0,
                      root |-> RelPath(<<>>), err |-> ""]

\* lines 38-47: os.Getwd gives the working directory as an absolute path
RootEnter ==
    /\ sync.pc = "FindSyncRoot"
    /\ sync' = [sync EXCEPT !.pc = "search",
                            !.current = IF sync.start.given THEN sync.start.path
                                        ELSE AbsPath(sync.cwd)]
    /\ SyncOthers

\* lines 50-54
RootFound ==
    /\ sync.pc = "search"
    /\ HasSyncFile(sync.cwd, sync.holds, sync.current)
    /\ sync' = [sync EXCEPT !.pc = "returned", !.root = sync.current,
                            !.iterations = @ + 1]
    /\ SyncOthers

\* lines 56-60
RootAscend ==
    /\ sync.pc = "search"
    /\ ~HasSyncFile(sync.cwd, sync.holds, sync.current)
    /\ PathDir(sync.current) # sync.current
    /\ sync' = [sync EXCEPT !.current = PathDir(sync.current), !.iterations = @ + 1]
    /\ SyncOthers

\* lines 56-59
RootNotFound ==
    /\ sync.pc = "search"
    /\ ~HasSyncFile(sync.cwd, sync.holds, sync.current)
    /\ PathDir(sync.current) = sync.current
    /\ sync' = [sync EXCEPT !.pc = "returned", !.err = ErrNoSyncFiles,
                            !.iterations = @ + 1]
    /\ SyncOthers

NextRoot ==
    \/ RootEnter
    \/ RootFound
    \/ RootAscend
    \/ RootNotFound

SpecRoot == InitRoot /\ [][NextRoot]_vars

(***************************************************************************)
(* tq: applyFilter and parseFilterParts.  A document is a decoded JSON or  *)
(* TOML value: an object (map[string]interface{}), an array                *)
(* ([]interface{}) or a number.  A filter is its sequence of characters.   *)
(***************************************************************************)
MaxSteps == 3

Num(n) == [kind |-> "number", val |-> n, fields |-> <<>>, items |-> <<>>]
Arr(items) == [kind |-> "array", val |-> 0, fields |-> <<>>, items |-> items]
Obj(fields) == [kind |-> "object", val |-> 0, fields |-> fields, items |-> <<>>]

\* {"a": [[1, 2], [3]], "b": {"a": 4}},  [{"a": 5}, 6]  and  7
Documents ==
    {Obj([a |-> Arr(<<Arr(<<Num(1), Num(2)>>), Arr(<<Num(3)>>)>>),
          b |-> Obj([a |-> Num(4)])]),
     Arr(<<Obj([a |-> Num(5)]), Num(6)>>),
     Num(7)}

\* what a filter is written from: field accesses and array indexes
FilterSteps ==
    {[field |-> f, index |-> 0] : f \in {"a", "b"}}
        \cup {[field |-> "", index |-> n] : n \in {-1, 0, 1, 2}}

IsIndex(step) == step.field = ""

\* the characters of a number
NumberText(n) == IF n < 0 THEN <<"-", ToString(-n)>> ELSE <<ToString(n)>>

\* the filter text of a sequence of steps in jq's syntax: .a  .a[0]  .[0].b
RECURSIVE FilterText(_, _)
FilterText(steps, first) ==
    IF steps = <<>> THEN (IF first THEN <<".">> ELSE <<>>)
    ELSE LET s == Head(steps)
             piece == IF IsIndex(s)
                      THEN (IF first THEN <<".">> ELSE <<>>)
                               \o <<"[">> \o NumberText(s.index) \o <<"]">>
                      ELSE <<".", s.field>>
         IN  piece \o FilterText(Tail(steps), FALSE)

\* lines 157-194: rest is the unread text, current the part being read
RECURSIVE ParseFrom(_, _, _, _)
ParseFrom(rest, parts, current, bracketDepth) ==
    IF rest = <<>>
    THEN (IF current # <<>> THEN Append(parts, current) ELSE parts)
    ELSE LET r == Head(rest)
         IN  IF r = "."
             THEN IF bracketDepth = 0
                  THEN ParseFrom(Tail(rest),
                                 IF current # <<>> THEN Append(parts, current) ELSE parts,
                                 <<>>, bracketDepth)
                  ELSE ParseFrom(Tail(rest), parts, Append(current, r), bracketDepth)
             ELSE IF r = "["
             THEN ParseFrom(Tail(rest), parts, Append(current, r), bracketDepth + 1)
             ELSE IF r = "]"
             THEN ParseFrom(Tail(rest), parts, Append(current, r), bracketDepth - 1)
             ELSE ParseFrom(Tail(rest), parts, Append(current, r), bracketDepth)

parseFilterParts(filter) == ParseFrom(filter, <<>>, <<>>, 0)

IsDigit(c) == \E n \in 0..9 : ToString(n) = c

DigitOf(c) == CHOOSE n \in 0..9 : ToString(n) = c

RECURSIVE DigitsValue(_, _)
DigitsValue(s, acc) ==
    IF s = <<>> \/ ~IsDigit(Head(s)) THEN acc
    ELSE DigitsValue(Tail(s), acc * 10 + DigitOf(Head(s)))

\* fmt.Sscanf(idxStr, "%d", &idx): an optional sign and the digits that
\* follow; what comes after them is left unread, without error
SscanfInt(s) ==
    LET signed == s # <<>> /\ Head(s) \in {"-", "+"}
        body == IF signed THEN Tail(s) ELSE s
    IN  IF body = <<>> \/ ~IsDigit(Head(body)) THEN [ok |-> FALSE, n |-> 0]
        ELSE [ok |-> TRUE,
              n |-> (IF signed /\ Head(s) = "-" THEN -1 ELSE 1) * DigitsValue(body, 0)]

ErrFieldNotFound == "field not found"
ErrNonObject == "cannot access field of non-object"
ErrInvalidIndex == "invalid array index"
ErrOutOfBounds == "array index out of bounds"
ErrNonArray == "cannot index non-array"

\* lines 109-118 and 139-148: m[name] of a map
FieldOf(current, name) ==
    IF current.kind # "object" THEN [err |-> ErrNonObject, value |-> current]
    ELSE IF name \notin DOMAIN current.fields THEN [err |-> ErrFieldNotFound, value |-> current]
    ELSE [err |-> "", value |-> current.fields[name]]

\* lines 128-136: a[idx] of a slice
ElementOf(arr, idx) ==
    IF arr.kind # "array" THEN [err |-> ErrNonArray, value |-> arr]
    ELSE IF idx < 0 \/ idx >= Len(arr.items) THEN [err |-> ErrOutOfBounds, value |-> arr]
    ELSE [err |-> "", value |-> arr.items[idx + 1]]

\* lines 96-149, the body of the loop for one part
ApplyPart(current, part) ==
    IF part[Len(part)] = "]" /\ FirstIndex(part, "[") # 0
    THEN LET idxStart == FirstIndex(part, "[")
             fieldName == Text(SubSeq(part, 1, idxStart - 1))
             idxStr == SubSeq(part, idxStart + 1, Len(part) - 1)
             arr == IF fieldName = "" THEN [err |-> "", value |-> current]
                    ELSE FieldOf(current, fieldName)
             idx == SscanfInt(idxStr)
         IN  IF arr.err # "" THEN arr
             ELSE IF ~idx.ok THEN [err |-> ErrInvalidIndex, value |-> current]
             ELSE ElementOf(arr.value, idx.n)
    ELSE FieldOf(current, Text(part))

\* lines 84-87: strings.HasPrefix and the slice
StripDot(filter) ==
    IF filter # <<>> /\ Head(filter) = "." THEN Tail(filter) ELSE filter

(***************************************************************************)
(* SpecFilter: applyFilter(data, filter), one part of the filter per step. *)
(***************************************************************************)
InitFilter ==
    /\ git = <<>>
    /\ head = <<>>
    /\ checkouts = <<>>
    /\ includeClean = FALSE
    /\ scan = IdleScan
    /\ orch = IdleOrch
    /\ walk = IdleWalk
    /\ cli = IdleCli
    /\ http = IdleHttp
    /\ wt = IdleWt
    /\ sync = IdleSync
    /\ \E data \in Documents, n \in 0..MaxSteps : \E steps \in [1..n -> FilterSteps] :
          tq = [pc |-> "applyFilter", data |-> data, steps |-> steps,
                filter |-> FilterText(steps, TRUE), parts |-> <<>>,
                current |-> data, err |-> ""]

TqOthers == UNCHANGED <<git, head, checkouts, includeClean, scan, orch, walk, cli, http, wt, sync>>

\* lines 79-82
FilterIdentity ==
    /\ tq.pc = "applyFilter"
    /\ tq.filter = <<".">>
    /\ tq' = [tq EXCEPT !.pc = "returned"]
    /\ TqOthers

\* lines 84-93
FilterParse ==
    /\ tq.pc = "applyFilter"
    /\ tq.filter # <<".">>
    /\ tq' = [tq EXCEPT !.pc = "loop", !.parts = parseFilterParts(StripDot(tq.filter))]
    /\ TqOthers

\* lines 94-150, one iteration
FilterPart ==
    /\ tq.pc = "loop"
    /\ tq.parts # <<>>
    /\ LET a == ApplyPart(tq.current, Head(tq.parts))
       IN  tq' = [tq EXCEPT !.pc = IF a.err # "" THEN "returned" ELSE "loop",
                            !.parts = Tail(@), !.current = a.value, !.err = a.err]
    /\ TqOthers

\* line 152
FilterReturn ==
    /\ tq.pc = "loop"
    /\ tq.parts = <<>>
    /\ tq' = [tq EXCEPT !.pc = "returned"]
    /\ TqOthers

NextFilter ==
    \/ FilterIdentity
    \/ FilterParse
    \/ FilterPart
    \/ FilterReturn

SpecFilter == InitFilter /\ [][NextFilter]_vars

(***************************************************************************)
(* Claims about analyzeRepo and analyzeBranch (SpecRepo).                  *)
(***************************************************************************)
Facts == git[RepoPath]

ProducedOf(s) == {s.produced[j] : j \in 1..Len(s.produced)}

FinishedScans == {scan.finished[k] : k \in 1..Len(scan.finished)}

AllCommandsSucceed ==
    /\ Facts.fail = "none"
    /\ Facts.coOK = Facts.branches

\* C1: Restoration: whenever analyzeRepo has returned, the branch checked
\* out in the repository is the branch that was checked out before the call.
C1_Restoration ==
    \A s \in FinishedScans : s.after = s.before

\* C7 as stated: every BranchStatus analyzeBranch produced, on every path,
\* that is not dirty has status "Clean".
C7_NotDirtyIsClean ==
    \A s \in FinishedScans : \A p \in ProducedOf(s) :
        ~p.bs.IsDirty => p.bs.Status = "Clean"

\* C7 amended: a BranchStatus that is not dirty has status "Error checking
\* out branch" when its checkout failed, "Error getting status" when its
\* status query failed, and "Clean" when both succeeded.
C7_NotDirtyIsCleanOrError ==
    \A s \in FinishedScans : \A p \in ProducedOf(s) :
        ~p.bs.IsDirty =>
            p.bs.Status = (IF p.on = "" THEN ErrCheckout
                           ELSE IF Facts.fail = "status" THEN ErrStatus
                           ELSE "Clean")

\* C7 witness: one call produced a not-dirty BranchStatus on the failed
\* checkout path and another on the path where both commands succeeded.
C7_Witness ==
    \E s \in FinishedScans :
        /\ \E p \in ProducedOf(s) : ~p.bs.IsDirty /\ p.bs.Status = ErrCheckout
        /\ \E p \in ProducedOf(s) : ~p.bs.IsDirty /\ p.bs.Status = "Clean"

\* C8: a RepoStatus returned with a non-empty error has no branches, and
\* the error is set exactly when the current-branch query or the branch
\* listing failed.
C8_ErrorMeansNoBranches ==
    \A s \in FinishedScans :
        /\ s.status.Error # "" => s.status.Branches = <<>>
        /\ s.status.Error # "" <=> Facts.fail \in {"revparse", "branch"}

\* C8 witness: a call returned with the error of a failed branch listing.
C8_Witness ==
    \E s \in FinishedScans :
        /\ Facts.fail = "branch"
        /\ s.status.Error = ErrBranches(ExitStatus(GitFatal))
        /\ s.status.Branches = <<>>

\* the counts `git rev-list --left-right --count b...b@{u}` gives for branch
\* b against its own upstream
TrueAhead(b) == Cardinality(Tip(b) \ UpstreamRef(b, Facts.upstream[b]))
TrueBehind(b) == Cardinality(UpstreamRef(b, Facts.upstream[b]) \ Tip(b))

\* C9: every branch's BranchStatus, the originally current branch's too, has
\* the branch's ahead and behind counts against its upstream, and 0 and 0
\* when it has no upstream (stated for repositories where every git command
\* succeeds).
C9_AheadBehindOfUpstream ==
    AllCommandsSucceed =>
        \A s \in FinishedScans : \A p \in ProducedOf(s) :
            IF Facts.upstream[p.bs.Name] = "none"
            THEN p.bs.Ahead = 0 /\ p.bs.Behind = 0
            ELSE p.bs.Ahead = TrueAhead(p.bs.Name) /\ p.bs.Behind = TrueBehind(p.bs.Name)

\* the BranchStatus records of a call, in the order produced
Records(s) == [j \in 1..Len(s.produced) |-> s.produced[j].bs]

\* C10: Idempotence: two calls of analyzeRepo in sequence on a repository
\* nobody else modifies yield identical BranchStatus records.
C10_Idempotence ==
    Len(scan.finished) = 2 =>
        Records(scan.finished[1]) = Records(scan.finished[2])

\* the produced record of branch b in a call, when there is one
ProducedFor(s, b) == {p \in ProducedOf(s) : p.bs.Name = b}

\* the branches whose checkout analyzeBranch asks for and git refuses
FailedCheckouts(s) ==
    {b \in Facts.branches : b # s.status.CurrentBranch /\ b \notin Facts.coOK}

\* C13: when the checkout of a non-current branch fails, the RepoStatus
\* returned for the repository holds a BranchStatus of that branch with
\* status "Error checking out branch" and isDirty false, and every listed
\* branch of the repository is still processed.
C13_CheckoutFailureRecorded ==
    \A s \in FinishedScans :
        s.status.Error = "" =>
            /\ \A b \in FailedCheckouts(s) :
                  \E j \in 1..Len(s.status.Branches) :
                      /\ s.status.Branches[j].Name = b
                      /\ s.status.Branches[j].Status = ErrCheckout
                      /\ ~s.status.Branches[j].IsDirty
            /\ \A b \in Facts.branches : ProducedFor(s, b) # {}

\* the names of a sequence of BranchStatus records
NamesOf(branches) == [j \in 1..Len(branches) |-> branches[j].Name]

\* C14: the branches of a RepoStatus without error are, in branch-listing
\* order, the BranchStatus records of exactly the listed branches that are
\* dirty when clean branches are not requested, and of all listed branches
\* when they are.
C14_BranchesFilter ==
    \A s \in FinishedScans :
        s.status.Error = "" =>
            LET listing == ListingOf(Facts.branches)
                dirty(b) == \E p \in ProducedFor(s, b) : p.bs.IsDirty
                wanted == SelectSeq(listing, LAMBDA b : includeClean \/ dirty(b))
            IN  /\ NamesOf(s.status.Branches) = wanted
                /\ \A j \in 1..Len(s.status.Branches) :
                      \E p \in ProducedFor(s, wanted[j]) : p.bs = s.status.Branches[j]

\* C14 witness: a call without clean branches requested returned only the
\* dirty one of two listed branches.
C14_Witness ==
    \E s \in FinishedScans :
        /\ ~includeClean
        /\ s.status.Error = ""
        /\ Len(s.produced) = 2
        /\ Len(s.status.Branches) = 1
        /\ s.status.Branches[1].Name = s.produced[2].bs.Name
        /\ ~s.produced[1].bs.IsDirty

\* C24: for every BranchStatus analyzeBranch produced without a checkout
\* error, the branch checked out when its status query and its ahead/behind
\* query ran is the branch the BranchStatus is named after.
C24_StatusOnNamedBranch ==
    \A s \in FinishedScans : \A p \in ProducedOf(s) :
        p.bs.Status # ErrCheckout => p.on = p.bs.Name

\* C30: a call whose current-branch query or branch listing failed ran no
\* checkout, and the branch checked out is the one checked out before it.
C30_NoCheckoutOnFailure ==
    \A s \in FinishedScans :
        Facts.fail \in {"revparse", "branch"} =>
            /\ s.ran = 0
            /\ s.after = s.before
            /\ s.produced = <<>>

\* C30 witness: a call returned after a failed branch listing, in a
\* repository with a second branch it could have checked out, without a
\* checkout.
C30_Witness ==
    \E s \in FinishedScans :
        /\ Facts.fail = "branch"
        /\ Cardinality(Facts.branches) = 2
        /\ s.status.CurrentBranch = s.before
        /\ s.ran = 0
        /\ s.after = s.before

(***************************************************************************)
(* Claims about findGitRepos (SpecFind).                                   *)
(***************************************************************************)
Returned == {walk.repos[i] : i \in 1..Len(walk.repos)}

\* the repository roots of the tree: directories with a .git child
RepoRoots == {p \in walk.tree : Append(p, ".git") \in walk.tree}

\* the names on the way from the scan root to p, both included
NamesTo(p) == {walk.rootName} \cup {p[i] : i \in 1..Len(p)}

InExcluded(p) == NamesTo(p) \cap {"node_modules", "vendor", ".git"} # {}

\* C5: Discovery depth bound: a repository at depth D >= 1 below the scan
\* root, not inside an excluded directory, is returned by findGitRepos when
\* max-depth >= D and is not returned when max-depth < D.
C5_DepthBound ==
    walk.pc = "done" =>
        \A p \in RepoRoots :
            (Len(p) >= 1 /\ ~InExcluded(p)) =>
                (p \in Returned <=> walk.maxDepth >= Len(p))

\* C6: Discovery exclusion: findGitRepos never returns a repository that
\* is inside a directory named node_modules, vendor or .git, at any depth.
C6_Exclusion ==
    \A p \in Returned : ~InExcluded(p)

\* C6 witness: the walk is over for a tree with a repository under a
\* node_modules directory that the depth limit does not cut off.
C6_Witness ==
    /\ walk.pc = "done"
    /\ \E p \in RepoRoots :
          /\ Len(p) >= 2
          /\ p[1] = "node_modules"
          /\ walk.maxDepth > Len(p)
          /\ walk.rootName = "ws"
          /\ p \notin Returned

(***************************************************************************)
(* Claims about the orchestrators (SpecOrch).                              *)
(***************************************************************************)
Count(seq, x) == Cardinality({i \in 1..Len(seq) : seq[i] = x})

Range(seq) == {seq[i] : i \in 1..Len(seq)}

WorkersOn(path, pcs) ==
    {j \in DOMAIN orch.w : orch.w[j].path = path /\ orch.w[j].pc \in pcs}

\* C2: in parallel mode, in every interleaving, no repository of the list
\* has more than one goroutine inside analyzeRepo at a time, and no
\* repository has analyzeRepo run on it by more than one goroutine ever.
C2_OneWorkerPerRepo ==
    \A path \in PathsOf(orch.repos) :
        /\ Cardinality(WorkersOn(path, {"analyzing"})) <= 1
        /\ orch.parCalls[path] <= 1

\* C2 witness: two goroutines are inside analyzeRepo at the same time, each
\* on its own repository.
C2_Witness ==
    \E j1, j2 \in DOMAIN orch.w :
        /\ j1 # j2
        /\ orch.w[j1].pc = "analyzing"
        /\ orch.w[j2].pc = "analyzing"
        /\ orch.w[j1].path # orch.w[j2].path

\* C3: for every list of repositories and every includeClean, the records
\* analyzeReposParallel returns are, as a set, the records
\* analyzeReposSequential returns, in every interleaving of the workers.
C3_SameSetOfRecords ==
    orch.mode = "done" => Range(orch.statuses) = Range(orch.seqStatuses)

\* C3 witness: both runs are over and the parallel one returned its records
\* in another order than the sequential one.
C3_Witness ==
    /\ orch.mode = "done"
    /\ Len(orch.repos) >= 2
    /\ orch.statuses # orch.seqStatuses
    /\ Len(orch.statuses) = Len(orch.seqStatuses)

Fatal(path) == git[path].fail \in {"revparse", "branch"}

\* the record of path in a list of records, when there is exactly one
RecordOf(statuses, path) ==
    CHOOSE s \in Range(statuses) : s.Path = path

OneRecord(statuses, path) ==
    Cardinality({i \in 1..Len(statuses) : statuses[i].Path = path}) = 1

\* C4: Error isolation: in both modes every repository of the list has
\* analyzeRepo called on it exactly once and has exactly one record in the
\* final list; the record of a repository whose current-branch query or
\* branch listing fails has a non-empty error, and the record of any other
\* repository is the one analyzeRepo gives for it on its own.
C4_ErrorIsolation ==
    orch.mode = "done" =>
        \A path \in PathsOf(orch.repos) :
            /\ Count(orch.seqCalls, path) = 1
            /\ orch.parCalls[path] = 1
            /\ OneRecord(orch.seqStatuses, path)
            /\ OneRecord(orch.statuses, path)
            /\ \A statuses \in {orch.seqStatuses, orch.statuses} :
                  LET own == analyzeRepo(git[path], orch.head0[path], path, includeClean)
                  IN  /\ Fatal(path) => RecordOf(statuses, path).Error # ""
                      /\ ~Fatal(path) => /\ RecordOf(statuses, path) = own.status
                                         /\ RecordOf(statuses, path).Error = ""

\* C4 witness: both runs are over for a list in which a repository whose
\* query fails comes before one whose commands succeed, and the latter's
\* record, with its dirty branch, is in both final lists.
C4_Witness ==
    /\ orch.mode = "done"
    /\ \E i, j \in 1..Len(orch.repos) :
          /\ i < j
          /\ Fatal(orch.repos[i])
          /\ ~Fatal(orch.repos[j])
          /\ \A statuses \in {orch.seqStatuses, orch.statuses} :
                /\ RecordOf(statuses, orch.repos[i]).Error # ""
                /\ RecordOf(statuses, orch.repos[j]).Error = ""
                /\ RecordOf(statuses, orch.repos[j]).Branches # <<>>

\* the record analyzeRepo gives for the i-th input path on its own
OwnRecord(i) ==
    analyzeRepo(git[orch.repos[i]], orch.head0[orch.repos[i]], orch.repos[i],
                includeClean).status

\* C11: in sequential mode analyzeRepo is called once per path, in input
\* order, a call returning before the next one starts, and the i-th record
\* of the output is the record of the i-th input path (compared while the
\* sequential run goes on and when both runs are over: the parallel run
\* leaves the sequential run's output alone).
C11_SequentialInOrder ==
    LET returned == Len(orch.seqStatuses)
        inCall == IF orch.mode = "sequential" /\ orch.running THEN 1 ELSE 0
    IN  /\ Len(orch.seqCalls) <= Len(orch.repos)
        /\ orch.seqCalls = SubSeq(orch.repos, 1, Len(orch.seqCalls))
        /\ Len(orch.seqCalls) = returned + inCall
        /\ orch.mode # "parallel" =>
              \A i \in 1..returned : orch.seqStatuses[i] = OwnRecord(i)
        /\ orch.mode # "sequential" => orch.seqCalls = orch.repos

\* C11 witness: the sequential run has returned for a list of two
\* repositories whose records differ, the failing one first.
C11_Witness ==
    /\ orch.mode # "sequential"
    /\ Len(orch.repos) = 2
    /\ Len(orch.seqStatuses) = 2
    /\ orch.seqStatuses[1].Error # ""
    /\ orch.seqStatuses[2].Error = ""

\* C12: in parallel mode, in every interleaving, the output has as many
\* records as there are input paths, and every path is the path of as many
\* records as it has places in the input.
C12_OneRecordPerPath ==
    orch.mode = "done" =>
        /\ Len(orch.statuses) = Len(orch.repos)
        /\ \A path \in Range(PathPool) :
              Cardinality({i \in 1..Len(orch.statuses) : orch.statuses[i].Path = path})
                  = Count(orch.repos, path)

\* C12 witness: the parallel run has returned with the record of the second
\* path received first.
C12_Witness ==
    /\ orch.mode = "done"
    /\ Len(orch.repos) = 2
    /\ Len(orch.statuses) = 2
    /\ orch.statuses[1].Path = orch.repos[2]
    /\ orch.statuses[2].Path = orch.repos[1]

(***************************************************************************)
(* Claims about main and the Presenter (SpecMain, SpecLine).               *)
(***************************************************************************)
\* C15: for the same directory tree and the same other flags, the lines
\* written to standard output with -verbose are the lines written without
\* it.
C15_VerboseKeepsStdout ==
    (cli.run[TRUE].pc = "done" /\ cli.run[FALSE].pc = "done") =>
        cli.run[TRUE].stdout = cli.run[FALSE].stdout

\* C16: with -json, for any number of repositories found, standard output
\* is one JSON array, "[" to "]", with one object per repository in the
\* order of the collected records, each object with its path, its
\* current_branch and its branches, and with an error key exactly when the
\* record's error is not empty.
C16_JSONArray ==
    \A v \in BOOLEAN :
        (cli.json /\ cli.run[v].pc = "done") =>
            LET out == cli.run[v].stdout
                recs == cli.run[v].statuses
                n == Len(cli.repos)
                starts == {k \in 1..Len(out) : out[k] = "  {"}
                nth(i) == CHOOSE k \in starts : Cardinality({j \in starts : j < k}) = i - 1
                stop(i) == IF i = n THEN Len(out) - 1 ELSE nth(i + 1) - 1
                has(i, line) == \E k \in nth(i)..stop(i) : out[k] = line
                errorKey(e) == "    \"error\": " \o Quote(e) \o ","
            IN  /\ Len(out) >= 2
                /\ out[1] = "["
                /\ out[Len(out)] = "]"
                /\ Cardinality(starts) = n
                /\ Len(recs) = n
                /\ \A i \in 1..n :
                      /\ out[nth(i) + 1] = "    \"path\": " \o Quote(recs[i].Path) \o ","
                      /\ out[nth(i) + 2] =
                            "    \"current_branch\": " \o Quote(recs[i].CurrentBranch) \o ","
                      /\ has(i, "    \"branches\": [")
                      /\ recs[i].Error # "" => has(i, errorKey(recs[i].Error))
                      /\ recs[i].Error = "" =>
                            \A e \in {"", ErrCurrentBranch(ExitStatus(GitFatal)),
                                        ErrBranches(ExitStatus(GitFatal))} : ~has(i, errorKey(e))
                      /\ out[stop(i)] = IF i = n THEN "  }" ELSE "  },"

\* the annotation as documented: nothing, [↑N], [↓M] or [↑N ↓M]
Annotation(ahead, behind) ==
    IF ahead = 0 /\ behind = 0 THEN ""
    ELSE IF behind = 0 THEN " [↑" \o ToString(ahead) \o "]"
    ELSE IF ahead = 0 THEN " [↓" \o ToString(behind) \o "]"
    ELSE " [↑" \o ToString(ahead) \o " ↓" \o ToString(behind) \o "]"

\* C17: in text mode the line printed for a branch carries, between the
\* branch name and the status, nothing when ahead and behind are both 0,
\* [↑N] when only ahead = N > 0, [↓M] when only behind = M > 0, and
\* [↑N ↓M] when both are non-zero.
C17_AheadBehindAnnotation ==
    (cli.pc = "done" /\ Len(cli.stdout) = 3 /\ cli.stdout[2] # AllClean) =>
        LET branch == cli.status.Branches[1]
        IN  cli.stdout[2] = LineStart(branch) \o Annotation(branch.Ahead, branch.Behind)
                                \o LineEnd(branch)

(***************************************************************************)
(* Claims about httppp (SpecConfig, SpecProxy).                            *)
(***************************************************************************)
\* C18: CLI flags take precedence over environment variables: for every
\* setting, whatever the flag's value and the environment variable's, when
\* the flag is given on the command line the effective Config value is the
\* flag's value.
C18_FlagsTakePrecedence ==
    http.pc = "serving" =>
        /\ http.flags.port.given => http.cfg.Port = http.flags.port.val
        /\ http.flags.url.given => http.cfg.TargetURL = http.flags.url.val
        /\ http.flags.maxBody.given => http.cfg.MaxBodySize = http.flags.maxBody.val
        /\ http.flags.onlyHeaders.given => http.cfg.OnlyHeaders = http.flags.onlyHeaders.val
        /\ http.flags.onlyBody.given => http.cfg.OnlyBody = http.flags.onlyBody.val
        /\ http.flags.onlyJSON.given => http.cfg.OnlyJSON = http.flags.onlyJSON.val
        /\ http.flags.skipTLSVerify.given =>
              http.cfg.SkipTLSVerify = http.flags.skipTLSVerify.val

Entries(header) == {header[i] : i \in 1..Len(header)}

\* C19: the proxy preserves all headers and status codes: when the target
\* responds, every header of the incoming request was forwarded to the
\* target, and the response written to the client carries the target's
\* status code, every header of the target's response and the target's body
\* byte for byte, whatever the printing options.
C19_ProxyPreserves ==
    (http.pc = "done" /\ http.target.answers) =>
        /\ Entries(http.req.Header) \subseteq Entries(http.sent.Header)
        /\ http.written.StatusCode = http.target.StatusCode
        /\ Entries(http.target.Header) \subseteq Entries(http.written.Header)
        /\ http.written.Body = http.target.Body

\* what the claim says PrintRequest or PrintResponse writes for a message:
\* the header block (the texts of block: marker, start line, each header
\* line, closing rule) exactly when neither OnlyBody nor OnlyJSON is set,
\* the body exactly when it is not empty, OnlyHeaders is not set, and
\* OnlyJSON is not set or the Content-Type contains application/json, and
\* nothing else
PrintedAsClaimed(printed, block, message) ==
    LET cfg == http.cfg
        contentType == Get(message.Header, ContentTypeKey)
        headers == ~cfg.OnlyBody /\ ~cfg.OnlyJSON
        body == /\ Len(message.Body) > 0
                /\ ~cfg.OnlyHeaders
                /\ (~cfg.OnlyJSON \/ Contains(contentType, "application/json"))
        formatted == formatBody(cfg, message.Body, contentType)
        isBody(text) == text \in {formatted \o "\n", "\n" \o formatted \o "\n"}
        wrote(text) == \E k \in 1..Len(printed) : printed[k] = text
    IN  /\ \A text \in block : wrote(text) <=> headers
        /\ (\E k \in 1..Len(printed) : isBody(printed[k])) <=> body
        /\ Len(printed) = (IF headers THEN Cardinality(block) ELSE 0)
                          + (IF body THEN 1 ELSE 0)

HeaderTexts(header) ==
    {Text(header[i].key) \o ": " \o Text(header[i].values[1]) \o "\n" : i \in 1..Len(header)}

\* C20: PrintRequest and PrintResponse print the header block exactly when
\* neither OnlyBody nor OnlyJSON is set, and the body exactly when it is
\* non-empty, OnlyHeaders is not set, and OnlyJSON is not set or the
\* Content-Type contains application/json.
C20_PrintingOptions ==
    /\ http.pc # "printRequest" =>
          PrintedAsClaimed(SubSeq(http.output, 1, http.mark),
                           {RequestMarker, RequestLine(http.req), HostLine(http.req),
                            RequestRule} \cup HeaderTexts(http.req.Header),
                           http.req)
    /\ (http.pc \in {"copy", "done"} /\ http.target.answers) =>
          PrintedAsClaimed(SubSeq(http.output, http.mark + 1, Len(http.output)),
                           {ResponseMarker, StatusLine(http.target), ResponseRule}
                               \cup HeaderTexts(http.target.Header),
                           http.target)

\* C20 witness: with OnlyJSON set, nothing was printed for a request with a
\* text/plain body and only the body for a response with a JSON body.
C20_Witness ==
    /\ http.pc = "done"
    /\ http.cfg.OnlyJSON
    /\ ~http.cfg.OnlyHeaders
    /\ http.req.Body = PlainBody
    /\ Get(http.req.Header, ContentTypeKey) = PlainType
    /\ http.target.Body = JSONBody
    /\ Get(http.target.Header, ContentTypeKey) = JSONType
    /\ http.mark = 0
    /\ Len(http.output) = 1


\* the send of line 151 goes through at once: the buffer has room
HasRoom == Len(orch.chan) < Capacity(orch.repos)

\* some goroutine of the parallel run can take a step: the caller (spawn
\* loop, receive, end of range), a worker, or the closer
CanStep ==
    \/ orch.pc = "spawn"
    \/ orch.pc = "collect" /\ (orch.chan # <<>> \/ orch.closed)
    \/ \E j \in DOMAIN orch.w : orch.w[j].pc \in {"ready", "analyzing", "deferred"}
    \/ \E j \in DOMAIN orch.w : orch.w[j].pc = "send" /\ (orch.closed \/ HasRoom)
    \/ orch.closer = "waiting" /\ orch.wg = 0

\* C29: in analyzeReposParallel no worker ever blocks at its send (the
\* channel never holds more than len(repos) results), no send meets a
\* closed channel, the channel is closed once, by the closer, and only
\* after every worker has sent, and the run is never stuck before it
\* returns.
C29_ChannelProtocol ==
    /\ Len(orch.chan) <= Len(orch.repos)
    /\ \A j \in DOMAIN orch.w :
          /\ orch.w[j].pc = "send" => ~orch.closed /\ HasRoom
          /\ orch.w[j].pc # "panic"
    /\ orch.closed <=> orch.closer = "done"
    /\ orch.closed => \A j \in DOMAIN orch.w : orch.w[j].pc = "gone"
    /\ orch.mode = "parallel" => CanStep

\* C29 witness: the channel was closed while it held the results of both
\* workers, none received yet.
C29_Witness ==
    /\ orch.mode = "parallel"
    /\ Len(orch.repos) = 2
    /\ Len(orch.chan) = 2
    /\ orch.closed
    /\ orch.statuses = <<>>

\* worker j's repository does not hang and the parallel run has spawned it
Runs(j) ==
    /\ orch.mode = "parallel"
    /\ j \in DOMAIN orch.w
    /\ orch.w[j].pc # "unborn"
    /\ ~Hangs(git[orch.repos[j]])

\* the collector holds the RepoStatus of the j-th repository
Delivered(j) ==
    /\ j \in DOMAIN orch.w
    /\ \E i \in 1..Len(orch.statuses) : orch.statuses[i].Path = orch.repos[j]

\* the sequential run has called analyzeRepo on nothing listed after a
\* repository that hangs
NothingPastHang ==
    \A i \in 1..Len(orch.seqCalls) : \A m \in 1..(i - 1) : ~Hangs(git[orch.repos[m]])

\* C27: in parallel mode, when the external command of one repository never
\* returns, every other repository's worker still finishes and its
\* RepoStatus reaches the collector; in sequential mode no repository after
\* the hung one is ever inspected.
C27_HangIsolation ==
    /\ \A j \in 1..(MaxRepos + 1) : Runs(j) ~> Delivered(j)
    /\ []NothingPastHang

\* C27 witness: the collector has the record of the second repository
\* while the worker of the first, which hangs, is still in its call.
C27_Witness ==
    /\ orch.mode = "parallel"
    /\ Len(orch.repos) = 2
    /\ Hangs(git[orch.repos[1]])
    /\ orch.w[1].pc = "analyzing"
    /\ Delivered(2)

(***************************************************************************)
(* Claims about parseGitStatus and the dirty flag (SpecStatus).            *)
(***************************************************************************)
CategoryNames == <<"modified", "added", "deleted", "untracked">>

\* the letter a category is known by in the first or the second column
LetterOf(c) ==
    CASE c = "modified" -> "M" [] c = "added" -> "A" [] c = "deleted" -> "D"
      [] c = "untracked" -> "?"

\* the classification as the claim words it: by the two-character prefix,
\* the letter first, or a space and the letter; "??" for untracked
InCategory(line, c) ==
    /\ Len(line) >= 2
    /\ IF c = "untracked" THEN line[1] = "?" /\ line[2] = "?"
       ELSE line[1] = LetterOf(c) \/ (line[1] = " " /\ line[2] = LetterOf(c))

CategoriesOf(line) == {i \in 1..Len(CategoryNames) : InCategory(line, CategoryNames[i])}

LinesIn(lines, c) == Cardinality({i \in 1..Len(lines) : InCategory(lines[i], c)})

ClaimedSummary(lines) ==
    LET counted == SelectSeq(CategoryNames, LAMBDA c : LinesIn(lines, c) > 0)
        texts == [j \in 1..Len(counted) |->
                     ToString(LinesIn(lines, counted[j])) \o " " \o counted[j]]
    IN  IF Len(counted) = 0 THEN "Clean" ELSE Join(texts, ", ")

\* C25: parseGitStatus counts each status line of at least two characters
\* in at most one category, decided by its two-character prefix, and
\* returns the non-zero counts joined with ", " in the order modified,
\* added, deleted, untracked, or "Clean" when no line was counted.
C25_SummaryOfCounts ==
    wt.pc \in {"parsed", "done"} =>
        /\ \A i \in 1..Len(wt.lines) : Cardinality(CategoriesOf(wt.lines[i])) <= 1
        /\ wt.summary = ClaimedSummary(wt.lines)

\* C25 witness: an output with a line of each of two categories, the later
\* category first, was summarised.
C25_Witness ==
    /\ wt.pc = "parsed"
    /\ Len(wt.lines) = 2
    /\ InCategory(wt.lines[1], "untracked")
    /\ InCategory(wt.lines[2], "modified")
    /\ wt.summary = "1 modified, 1 untracked"

\* C26: a BranchStatus is dirty with status "Clean" exactly when the status
\* output is non-empty and none of its lines has a classified prefix.
C26_DirtyButClean ==
    wt.pc = "done" =>
        ((wt.branch.IsDirty /\ wt.branch.Status = "Clean")
            <=> (/\ Len(wt.output) > 0
                 /\ \A i \in 1..Len(wt.lines) : CategoriesOf(wt.lines[i]) = {}))

\* C26 witness: the output of a tree with only a rename and a conflict gave
\* a dirty BranchStatus with status "Clean".
C26_Witness ==
    /\ wt.pc = "done"
    /\ Len(wt.lines) = 2
    /\ wt.lines[1][1] = "R"
    /\ wt.lines[2][1] = "U"
    /\ wt.branch.IsDirty
    /\ wt.branch.Status = "Clean"


(***************************************************************************)
(* Claims about ai-sync-conventions (SpecSync).                            *)
(***************************************************************************)
PathAt(i) == JoinPath(SyncRootPath, Files[i])

\* the listed files that existed before the call
Existing == {i \in 1..Len(Files) : sync.fs0[PathAt(i)].exists}

\* the files modified latest among them
Newest == {i \in Existing : \A j \in Existing : sync.fs0[PathAt(j)].mtime <= sync.fs0[PathAt(i)].mtime}

\* C21: after Sync(root) has returned without error, every listed file
\* exists under root with the content that the most recently modified
\* listed file had before the call.
C21_AllFilesSynced ==
    (sync.pc = "returned" /\ sync.err = "") =>
        \E s \in Newest : \A i \in 1..Len(Files) :
            /\ sync.fs[PathAt(i)].exists
            /\ sync.fs[PathAt(i)].content = sync.fs0[PathAt(s)].content

\* the planned targets, as a set
TargetSet == {sync.plan.TargetPaths[k] : k \in 1..Len(sync.plan.TargetPaths)}

\* C28: CreatePlan's source is the existing listed file with the latest
\* modification time, the earliest in the list on equal times; the source
\* is not among the targets; the targets are exactly the other listed files
\* whose content differs from the source's, those that do not exist
\* included.
C28_PlanSourceAndTargets ==
    (sync.pc = "plan.Sync") =>
        \E s \in Newest :
            /\ \A j \in Newest : s <= j
            /\ sync.plan.SourcePath = PathAt(s)
            /\ sync.plan.SourcePath \notin TargetSet
            /\ TargetSet =
                  {PathAt(i) : i \in {j \in 1..Len(Files) \ {s} :
                      \/ ~sync.fs0[PathAt(j)].exists
                      \/ sync.fs0[PathAt(j)].content # sync.fs0[PathAt(s)].content}}


(***************************************************************************)
(* Claims about FindSyncRoot (SpecRoot).                                   *)
(***************************************************************************)
\* the directory the search starts in
Origin == Resolve(sync.cwd, IF sync.start.given THEN sync.start.path ELSE AbsPath(sync.cwd))

\* the depths of the directories from the start up to the filesystem root
\* that hold a sync file
DepthsWithSyncFile ==
    {d \in 0..Len(Origin) :
        HasSyncFile(sync.cwd, sync.holds, AbsPath(SubSeq(Origin, 1, d)))}

\* C22: FindSyncRoot(start) terminates, within one look at each directory
\* from start up to the root; it returns the nearest of those directories
\* that holds a sync file, and an error exactly when none does.
C22_NearestSyncRoot ==
    /\ sync.pc \in {"search", "returned"} => sync.iterations <= Len(Origin) + 1
    /\ sync.pc = "returned" =>
          /\ sync.err # "" <=> DepthsWithSyncFile = {}
          /\ sync.err = "" =>
                \E d \in DepthsWithSyncFile :
                    /\ \A e \in DepthsWithSyncFile : e <= d
                    /\ Resolve(sync.cwd, sync.root) = SubSeq(Origin, 1, d)


(***************************************************************************)
(* Claims about tq (SpecFilter).                                           *)
(***************************************************************************)
\* the value a field access or an array index reaches, FALSE in ok when the
\* field is missing, the value is not an object or not an array, or the
\* index is negative or past the end
Reach(value, step) ==
    IF IsIndex(step)
    THEN IF value.kind = "array" /\ step.index >= 0 /\ step.index < Len(value.items)
         THEN [ok |-> TRUE, value |-> value.items[step.index + 1]]
         ELSE [ok |-> FALSE, value |-> value]
    ELSE IF value.kind = "object" /\ step.field \in DOMAIN value.fields
         THEN [ok |-> TRUE, value |-> value.fields[step.field]]
         ELSE [ok |-> FALSE, value |-> value]

\* every step of the filter applied in order from left to right
RECURSIVE ReachAll(_, _)
ReachAll(value, steps) ==
    IF steps = <<>> THEN [ok |-> TRUE, value |-> value]
    ELSE LET r == Reach(value, Head(steps))
         IN  IF r.ok THEN ReachAll(r.value, Tail(steps)) ELSE r

\* C23: applyFilter returns the whole document for ".", and for any other
\* filter the value reached by applying every field access and every array
\* index written in it, from left to right; it returns an error when one
\* of them cannot be applied.
C23_FilterAppliesEveryStep ==
    tq.pc = "returned" =>
        LET claimed == ReachAll(tq.data, tq.steps)
        IN  /\ tq.err # "" <=> ~claimed.ok
            /\ tq.err = "" => tq.current = claimed.value

=============================================================================
